---------------------------- MODULE Spec2Model ----------------------------
(***************************************************************************)
(* Model of the fusabi-community type providers: the protobuf provider     *)
(* (tokenizer, recursive-descent parser, type mapper), the SQL DDL         *)
(* provider (statement / comma scanner, column parser, type mapper) and    *)
(* the OBI cross-reference validator.                                      *)
(*                                                                         *)
(* Representation.  A text that the code scans character by character is   *)
(* a sequence of one-character strings.  A Rust String that the code only  *)
(* compares or concatenates (identifiers, generated type names) is a       *)
(* TLA+ string; `push` and `format!` are \o.                               *)
(***************************************************************************)
EXTENDS Integers, Sequences, FiniteSets, TLC

VARIABLES
    pb,     \* the running ProtobufProvider::generate_types call
    sc,     \* the running split_statements / split_by_comma call
    sq,     \* the running SqlProvider::generate_types call
    ob      \* the running validate_schema call

vars == <<pb, sc, sq, ob>>

(***************************************************************************)
(* Bounds of the model.                                                    *)
(***************************************************************************)
MaxSqlLen == 4

MaxFields == 2

MaxMsgs == 3

MaxCols == 2

MaxObiFields == 2

MaxWrap == 2

\* Statements of one SQL script.
MaxStmts == 2

\* Segments of a package name.
MaxSegs == 2

\* Stray tokens put between two top-level declarations.
MaxStray == 2

\* Methods of one service.
MaxMethods == 2

\* Lexical pieces of one text, before the piece that runs to its end.
MaxPieces == 2

(***************************************************************************)
(* Generic helpers on sequences of characters.                             *)
(***************************************************************************)
SeqsUpTo(S, n) == UNION {[1..k -> S] : k \in 0..n}

IsWhitespace(c) == c \in {" ", "\t", "\n", "\r"}

RECURSIVE TrimStart(_)
TrimStart(t) ==
    IF t # <<>> /\ IsWhitespace(Head(t)) THEN TrimStart(Tail(t)) ELSE t

RECURSIVE TrimEnd(_)
TrimEnd(t) ==
    IF t # <<>> /\ IsWhitespace(t[Len(t)])
    THEN TrimEnd(SubSeq(t, 1, Len(t) - 1))
    ELSE t

\* str::trim
Trim(t) == TrimEnd(TrimStart(t))

(***************************************************************************)
(* Protobuf provider: tokens.  A token is [k, s]: k is the variant of the  *)
(* Token enum, s its payload.  Identifier and StringLiteral carry a        *)
(* string; Number carries the characters of its lexeme, which              *)
(* parse::<u32>() and parse::<i32>() read one by one.                      *)
(***************************************************************************)
Tok(k) == [k |-> k, s |-> ""]

TokS(k, s) == [k |-> k, s |-> s]

Eof == Tok("Eof")

Letters ==
    {"a", "b", "c", "d", "e", "f", "g", "h", "i", "j", "k", "l", "m", "n", "o", "p", "q", "r", "s", "t", "u", "v", "w", "x", "y", "z",
     "A", "B", "C", "D", "E", "F", "G", "H", "I", "J", "K", "L", "M", "N", "O", "P", "Q", "R", "S", "T", "U", "V", "W", "X", "Y", "Z"}

Digits == {"0", "1", "2", "3", "4", "5", "6", "7", "8", "9"}

\* char::is_alphanumeric, on the ASCII characters of the model
IsAlphanumeric(c) == c \in Letters \cup Digits

PunctChars == {"{", "}", "(", ")", "<", ">", ";", "=", ",", "."}

Punct(c) ==
    CASE c = "{" -> "LeftBrace"
      [] c = "}" -> "RightBrace"
      [] c = "(" -> "LeftParen"
      [] c = ")" -> "RightParen"
      [] c = "<" -> "LeftAngle"
      [] c = ">" -> "RightAngle"
      [] c = ";" -> "Semicolon"
      [] c = "=" -> "Equals"
      [] c = "," -> "Comma"
      [] c = "." -> "Dot"

\* "Check for keywords": the reserved words, matched on the whole identifier.
KeywordToken(ident) ==
    CASE ident = "package" -> Tok("Package")
      [] ident = "import" -> Tok("Import")
      [] ident = "message" -> Tok("Message")
      [] ident = "enum" -> Tok("Enum")
      [] ident = "service" -> Tok("Service")
      [] ident = "rpc" -> Tok("Rpc")
      [] ident = "returns" -> Tok("Returns")
      [] ident = "optional" -> Tok("Optional")
      [] ident = "required" -> Tok("Required")
      [] ident = "repeated" -> Tok("Repeated")
      [] ident = "map" -> Tok("Map")
      [] ident = "stream" -> Tok("Stream")
      [] OTHER -> TokS("Identifier", ident)

\* `// ...`: consumes up to and including the newline, or to the end.
RECURSIVE SkipLineComment(_, _)
SkipLineComment(cs, i) ==
    IF i > Len(cs) THEN i
    ELSE IF cs[i] = "\n" THEN i + 1
    ELSE SkipLineComment(cs, i + 1)

\* A block comment that is never closed.
SkipBlockComment_ToEnd(cs, i) == Len(cs) + 1

\* `/* ... */`: consumes up to and including the first `*/`, or to the end.
RECURSIVE SkipBlockComment(_, _)
SkipBlockComment(cs, i) ==
    IF i > Len(cs) THEN i
    ELSE IF cs[i] = "*" /\ i + 1 <= Len(cs) /\ cs[i + 1] = "/" THEN i + 2
    ELSE SkipBlockComment(cs, i + 1)

\* The body of a string literal, after the opening quote.
RECURSIVE ReadString(_, _, _)
ReadString(cs, i, string) ==
    IF i > Len(cs) THEN [i |-> i, s |-> string]
    ELSE IF cs[i] = "\"" THEN [i |-> i + 1, s |-> string]
    ELSE IF cs[i] = "\\"
         THEN (IF i + 1 <= Len(cs)
               THEN ReadString(cs, i + 2, string \o cs[i + 1])
               ELSE ReadString(cs, i + 1, string))
         ELSE ReadString(cs, i + 1, string \o cs[i])

\* Where the run of characters of the set `of` that starts at i ends: the
\* first position from i on that is past the text or holds another character.
RunEnd(cs, i, of) ==
    CHOOSE j \in i..(Len(cs) + 1) :
        /\ \A m \in i..(j - 1) : cs[m] \in of
        /\ j = Len(cs) + 1 \/ cs[j] \notin of

\* The String of the characters a..b of the text, joined by halves.
RECURSIVE Collect(_, _, _)
Collect(cs, a, b) ==
    IF a > b THEN ""
    ELSE IF a = b THEN cs[a]
    ELSE Collect(cs, a, (a + b) \div 2) \o Collect(cs, (a + b) \div 2 + 1, b)

\* `while c.is_ascii_digit() || c == '-' || c == '.' { number.push(c) }`
ReadNumber(cs, i) ==
    [i |-> RunEnd(cs, i, Digits \cup {"-", "."}),
     s |-> SubSeq(cs, i, RunEnd(cs, i, Digits \cup {"-", "."}) - 1)]

\* `while c.is_alphanumeric() || c == '_' { ident.push(c) }`
ReadIdent(cs, i) ==
    [i |-> RunEnd(cs, i, Letters \cup Digits \cup {"_"}),
     s |-> Collect(cs, i, RunEnd(cs, i, Letters \cup Digits \cup {"_"}) - 1)]

\* The locals of tokenize: the characters, the cursor of `chars` (1-based)
\* and the tokens pushed so far; done once Eof is pushed.
TokenizeStart(content) ==
    [cs |-> content, i |-> 1, tokens |-> <<>>, done |-> FALSE]

\* One iteration of the `while let Some(&ch) = chars.peek()` loop of
\* tokenize, or after the loop `tokens.push(Token::Eof)`.
TokenizeStep(t) ==
    IF t.done THEN t
    ELSE IF t.i > Len(t.cs)
    THEN [t EXCEPT !.tokens = Append(@, Eof), !.done = TRUE]
    ELSE LET cs == t.cs
             i == t.i
             ch == cs[i]
         IN  CASE ch \in {" ", "\t", "\n", "\r"} -> [t EXCEPT !.i = i + 1]
               [] ch = "/" ->
                    IF i + 1 <= Len(cs) /\ cs[i + 1] = "/"
                    THEN [t EXCEPT !.i = SkipLineComment(cs, i + 2)]
                    ELSE IF i + 1 <= Len(cs) /\ cs[i + 1] = "*"
                    THEN [t EXCEPT !.i = SkipBlockComment(cs, i + 2)]
                    ELSE [t EXCEPT !.i = i + 1]
               [] ch \in PunctChars ->
                    [t EXCEPT !.i = i + 1,
                              !.tokens = Append(@, Tok(Punct(ch)))]
               [] ch = "\"" ->
                    LET r == ReadString(cs, i + 1, "")
                    IN  [t EXCEPT !.i = r.i,
                                  !.tokens = Append(@, TokS("StringLiteral",
                                                            r.s))]
               [] ch \in Digits \cup {"-"} ->
                    LET r == ReadNumber(cs, i)
                    IN  [t EXCEPT !.i = r.i,
                                  !.tokens = Append(@, TokS("Number", r.s))]
               [] ch \in Letters \cup {"_"} ->
                    LET r == ReadIdent(cs, i)
                    IN  [t EXCEPT !.i = r.i,
                                  !.tokens = Append(@, KeywordToken(r.s))]
               [] OTHER -> [t EXCEPT !.i = i + 1]

\* Up to n iterations from t, taken as two halves to keep the evaluation
\* shallow.
RECURSIVE TokenizeRun(_, _)
TokenizeRun(t, n) ==
    IF t.done \/ n = 0 THEN t
    ELSE IF n = 1 THEN TokenizeStep(t)
    ELSE TokenizeRun(TokenizeRun(t, n \div 2), n - (n \div 2))

\* tokenize: every iteration consumes a character, the last step pushes Eof.
tokenize(content) ==
    TokenizeRun(TokenizeStart(content), Len(content) + 1).tokens

(***************************************************************************)
(* Protobuf provider: the AST (types.rs).                                  *)
(***************************************************************************)
ScalarNames ==
    {"double", "float", "int32", "int64", "uint32", "uint64", "sint32",
     "sint64", "fixed32", "fixed64", "sfixed32", "sfixed64", "bool",
     "string", "bytes"}

\* FieldType::from_str: a scalar keyword, or else a message reference.
FieldTypeFromStr(s) ==
    CASE s = "double" -> [t |-> "Double"]
      [] s = "float" -> [t |-> "Float"]
      [] s = "int32" -> [t |-> "Int32"]
      [] s = "int64" -> [t |-> "Int64"]
      [] s = "uint32" -> [t |-> "UInt32"]
      [] s = "uint64" -> [t |-> "UInt64"]
      [] s = "sint32" -> [t |-> "SInt32"]
      [] s = "sint64" -> [t |-> "SInt64"]
      [] s = "fixed32" -> [t |-> "Fixed32"]
      [] s = "fixed64" -> [t |-> "Fixed64"]
      [] s = "sfixed32" -> [t |-> "SFixed32"]
      [] s = "sfixed64" -> [t |-> "SFixed64"]
      [] s = "bool" -> [t |-> "Bool"]
      [] s = "string" -> [t |-> "String"]
      [] s = "bytes" -> [t |-> "Bytes"]
      [] OTHER -> [t |-> "Message", name |-> s]

MapType(key_type, value_type) ==
    [t |-> "Map", key |-> key_type, value |-> value_type]

\* Message::new
NewMessage(name) ==
    [name |-> name, fields |-> <<>>, nested_messages |-> <<>>,
     nested_enums |-> <<>>]

\* Enum::new
NewEnum(name) == [name |-> name, values |-> <<>>]

\* ProtoFile::new; package is <<>> (None) or <<name>> (Some), the name being
\* the dot-joined identifier chain kept as its pieces: "a", ".", "b".
NewProtoFile ==
    [package |-> <<>>, imports |-> <<>>, messages |-> <<>>, enums |-> <<>>,
     services |-> <<>>]

(***************************************************************************)
(* Protobuf provider: the recursive-descent parser (parser.rs).  pos is    *)
(* 1-based: the code's pos + 1.  A parse function returns                  *)
(* [ok |-> TRUE, pos, val] or [ok |-> FALSE, err].                         *)
(***************************************************************************)
Ok(pos, val) == [ok |-> TRUE, pos |-> pos, val |-> val]

ParseError(msg, got) ==
    [ok |-> FALSE, err |-> [kind |-> "ParseError", msg |-> msg, got |-> got]]

\* The `?` operator: an Err returns at once, an Ok value is bound and the
\* function goes on with it.
Try(result, Then(_)) ==
    IF result.ok THEN Then(result) ELSE result

\* Parser::current
Current(toks, pos) == IF pos <= Len(toks) THEN toks[pos] ELSE Eof

\* An advance that leaves the cursor where it is.
Advance_Stay(toks, pos) == pos

\* Parser::advance
Advance(toks, pos) == IF pos <= Len(toks) THEN pos + 1 ELSE pos

\* Parser::expect
Expect(toks, pos, k) ==
    IF Current(toks, pos).k = k
    THEN Ok(Advance(toks, pos), k)
    ELSE ParseError("Expected " \o k, Current(toks, pos))

\* An expect_identifier that also takes a keyword token as a name.
ExpectIdentifier_AnyWord(toks, pos) ==
    IF Current(toks, pos).k = "Identifier"
    THEN Ok(Advance(toks, pos), Current(toks, pos).s)
    ELSE IF Current(toks, pos) = KeywordToken("stream")
         \/ Current(toks, pos) = KeywordToken("package")
    THEN Ok(Advance(toks, pos), Current(toks, pos).k)
    ELSE ParseError("Expected identifier", Current(toks, pos))

\* Parser::expect_identifier
ExpectIdentifier(toks, pos) ==
    IF Current(toks, pos).k = "Identifier"
    THEN Ok(Advance(toks, pos), Current(toks, pos).s)
    ELSE ParseError("Expected identifier", Current(toks, pos))

\* Parser::expect_number
ExpectNumber(toks, pos) ==
    IF Current(toks, pos).k = "Number"
    THEN Ok(Advance(toks, pos), Current(toks, pos).s)
    ELSE ParseError("Expected number", Current(toks, pos))

DigitValue(c) ==
    CASE c = "0" -> 0 [] c = "1" -> 1 [] c = "2" -> 2 [] c = "3" -> 3
      [] c = "4" -> 4 [] c = "5" -> 5 [] c = "6" -> 6 [] c = "7" -> 7
      [] c = "8" -> 8 [] c = "9" -> 9

AllDigits(ds) == ds # <<>> /\ \A k \in 1..Len(ds) : ds[k] \in Digits

\* A parsed number is kept as its decimal digits without leading zeros: the
\* u32 range is wider than the integers of the model checker.
RECURSIVE StripZeros(_)
StripZeros(ds) ==
    IF Len(ds) > 1 /\ Head(ds) = "0" THEN StripZeros(Tail(ds)) ELSE ds

RECURSIVE DigitsLeq(_, _)
DigitsLeq(a, b) ==
    IF Len(a) # Len(b) THEN Len(a) < Len(b)
    ELSE IF a = <<>> THEN TRUE
    ELSE IF Head(a) # Head(b) THEN DigitValue(Head(a)) < DigitValue(Head(b))
    ELSE DigitsLeq(Tail(a), Tail(b))

U32MaxDigits == <<"4", "2", "9", "4", "9", "6", "7", "2", "9", "5">>

I32MaxDigits == <<"2", "1", "4", "7", "4", "8", "3", "6", "4", "7">>

I32MinDigits == <<"2", "1", "4", "7", "4", "8", "3", "6", "4", "8">>

\* A parse that takes every Number token for a field number.
ParseU32_AnyNumber(number_str, msg) == [ok |-> TRUE, val |-> number_str]

\* number_str.parse::<u32>() with its map_err: digits only (the tokenizer
\* never yields a `+`), in range.
ParseU32(number_str, msg) ==
    IF AllDigits(number_str) /\ DigitsLeq(StripZeros(number_str), U32MaxDigits)
    THEN [ok |-> TRUE, val |-> StripZeros(number_str)]
    ELSE ParseError(msg, TokS("Number", number_str))

\* number_str.parse::<i32>() with its map_err: an optional leading `-`, then
\* digits, in range.
ParseI32(number_str, msg) ==
    IF number_str # <<>> /\ number_str[1] = "-"
    THEN (IF AllDigits(Tail(number_str))
             /\ DigitsLeq(StripZeros(Tail(number_str)), I32MinDigits)
          THEN [ok |-> TRUE,
                val |-> IF StripZeros(Tail(number_str)) = <<"0">> THEN <<"0">>
                        ELSE <<"-">> \o StripZeros(Tail(number_str))]
          ELSE ParseError(msg, TokS("Number", number_str)))
    ELSE (IF AllDigits(number_str)
             /\ DigitsLeq(StripZeros(number_str), I32MaxDigits)
          THEN [ok |-> TRUE, val |-> StripZeros(number_str)]
          ELSE ParseError(msg, TokS("Number", number_str)))

\* The tail every field production shares: `name = number ;`.
FieldTail(toks, pos, field_type, label) ==
    Try(ExpectIdentifier(toks, pos), LAMBDA name :
    Try(Expect(toks, name.pos, "Equals"), LAMBDA eq :
    Try(ExpectNumber(toks, eq.pos), LAMBDA number_str :
    Try(ParseU32(number_str.val, "Invalid field number"), LAMBDA number :
    Try(Expect(toks, number_str.pos, "Semicolon"), LAMBDA semi :
        Ok(semi.pos, [name |-> name.val, field_type |-> field_type,
                      number |-> number.val, label |-> label]))))))

\* "Parse optional label": the label keyword, or the default without one.
FieldLabelOf(k) ==
    CASE k = "Optional" -> "Optional"
      [] k = "Required" -> "Required"
      [] k = "Repeated" -> "Repeated"
      [] OTHER -> "Optional"

\* Parser::parse_field
ParseField(toks, pos) ==
    LET k == Current(toks, pos).k
    IN  Try(ExpectIdentifier(toks, IF k \in {"Optional", "Required", "Repeated"}
                                   THEN Advance(toks, pos) ELSE pos),
            LAMBDA type_name :
                FieldTail(toks, type_name.pos,
                          FieldTypeFromStr(type_name.val), FieldLabelOf(k)))

\* `map < K , V >` of parse_map_field, giving FieldType::Map(K, V).
ParseMapType(toks, pos) ==
    Try(Expect(toks, pos, "Map"), LAMBDA kw :
    Try(Expect(toks, kw.pos, "LeftAngle"), LAMBDA la :
    Try(ExpectIdentifier(toks, la.pos), LAMBDA key :
    Try(Expect(toks, key.pos, "Comma"), LAMBDA comma :
    Try(ExpectIdentifier(toks, comma.pos), LAMBDA value :
    Try(Expect(toks, value.pos, "RightAngle"), LAMBDA ra :
        Ok(ra.pos, MapType(FieldTypeFromStr(key.val),
                           FieldTypeFromStr(value.val)))))))))

\* A map field that takes the default label of a plain field.
ParseMapField_DefaultLabel(toks, pos) ==
    Try(ParseMapType(toks, pos), LAMBDA map_type :
        FieldTail(toks, map_type.pos, map_type.val, "Optional"))

\* Parser::parse_map_field: "Maps are always repeated".
ParseMapField(toks, pos) ==
    Try(ParseMapType(toks, pos), LAMBDA map_type :
        FieldTail(toks, map_type.pos, map_type.val, "Repeated"))

\* parse_enum up to its loop: `enum Name {` and Enum::new.
ParseEnumHead(toks, pos) ==
    Try(Expect(toks, pos, "Enum"), LAMBDA kw :
    Try(ExpectIdentifier(toks, kw.pos), LAMBDA name :
    Try(Expect(toks, name.pos, "LeftBrace"), LAMBDA lb :
        Ok(lb.pos, NewEnum(name.val)))))

\* `NAME = number ;` in the loop of parse_enum, at the name.
ParseEnumValue(toks, pos) ==
    Try(Expect(toks, Advance(toks, pos), "Equals"), LAMBDA eq :
    Try(ExpectNumber(toks, eq.pos), LAMBDA number_str :
    Try(ParseI32(number_str.val, "Invalid enum number"), LAMBDA number :
    Try(Expect(toks, number_str.pos, "Semicolon"), LAMBDA semi :
        Ok(semi.pos, [name |-> Current(toks, pos).s,
                      number |-> number.val])))))

\* parse_message up to its loop: `message Name {` and Message::new.
ParseMessageHead(toks, pos) ==
    Try(Expect(toks, pos, "Message"), LAMBDA kw :
    Try(ExpectIdentifier(toks, kw.pos), LAMBDA name :
    Try(Expect(toks, name.pos, "LeftBrace"), LAMBDA lb :
        Ok(lb.pos, NewMessage(name.val)))))

\* A skip that ends at the first closing brace, whatever the depth.
RECURSIVE SkipMethodBody_FirstBrace(_, _, _)
SkipMethodBody_FirstBrace(toks, pos, depth) ==
    IF Current(toks, pos).k = "Eof" THEN pos
    ELSE IF Current(toks, pos).k = "RightBrace" THEN Advance(toks, pos)
    ELSE SkipMethodBody_FirstBrace(toks, Advance(toks, pos), depth)

\* "Skip method body if present": brace counting from inside the body.
RECURSIVE SkipMethodBody(_, _, _)
SkipMethodBody(toks, pos, depth) ==
    IF depth > 0 /\ Current(toks, pos).k # "Eof"
    THEN SkipMethodBody(toks, Advance(toks, pos),
            CASE Current(toks, pos).k = "LeftBrace" -> depth + 1
              [] Current(toks, pos).k = "RightBrace" -> depth - 1
              [] OTHER -> depth)
    ELSE pos

\* `( stream? Type )` of parse_method.
MethodType(toks, pos) ==
    Try(Expect(toks, pos, "LeftParen"), LAMBDA lp :
    Try(ExpectIdentifier(toks, IF Current(toks, lp.pos).k = "Stream"
                               THEN Advance(toks, lp.pos) ELSE lp.pos),
        LAMBDA ty :
    Try(Expect(toks, ty.pos, "RightParen"), LAMBDA rp :
        Ok(rp.pos, [type |-> ty.val,
                    streaming |-> Current(toks, lp.pos).k = "Stream"]))))

\* Parser::parse_method
ParseMethod(toks, pos) ==
    Try(Expect(toks, pos, "Rpc"), LAMBDA kw :
    Try(ExpectIdentifier(toks, kw.pos), LAMBDA name :
    Try(MethodType(toks, name.pos), LAMBDA input :
    Try(Expect(toks, input.pos, "Returns"), LAMBDA ret :
    Try(MethodType(toks, ret.pos), LAMBDA output :
    Try(IF Current(toks, output.pos).k = "LeftBrace"
        THEN Ok(SkipMethodBody(toks, Advance(toks, output.pos), 1), "Body")
        ELSE Expect(toks, output.pos, "Semicolon"),
        LAMBDA end :
        Ok(end.pos, [name |-> name.val,
                     input_type |-> input.val.type,
                     output_type |-> output.val.type,
                     client_streaming |-> input.val.streaming,
                     server_streaming |-> output.val.streaming])))))))

\* parse_service up to its loop: `service Name {`.
ParseServiceHead(toks, pos) ==
    Try(Expect(toks, pos, "Service"), LAMBDA kw :
    Try(ExpectIdentifier(toks, kw.pos), LAMBDA name :
    Try(Expect(toks, name.pos, "LeftBrace"), LAMBDA lb :
        Ok(lb.pos, [name |-> name.val, methods |-> <<>>]))))

\* Parser::parse_qualified_name; parts.join(".") keeps the pieces.
RECURSIVE QualifiedNameRest(_, _, _)
QualifiedNameRest(toks, pos, parts) ==
    IF Current(toks, pos).k = "Dot"
    THEN Try(ExpectIdentifier(toks, Advance(toks, pos)), LAMBDA part :
             QualifiedNameRest(toks, part.pos, parts \o <<".", part.val>>))
    ELSE Ok(pos, parts)

ParseQualifiedName(toks, pos) ==
    Try(ExpectIdentifier(toks, pos), LAMBDA first :
        QualifiedNameRest(toks, first.pos, <<first.val>>))

\* The string literal an `import` or `syntax` statement may carry.
SkipStringLiteral(toks, pos) ==
    IF Current(toks, pos).k = "StringLiteral" THEN Advance(toks, pos) ELSE pos

(***************************************************************************)
(* The parser as it runs: the token cursor and the stack of the calls of   *)
(* parse_file, parse_message, parse_enum and parse_service in progress,    *)
(* each with the value it is building.  A step is one iteration of the     *)
(* `while` loop of the innermost call, or its return after the loop.       *)
(***************************************************************************)
ParserStart(toks) ==
    [toks |-> toks, pos |-> 1,
     stack |-> <<[fn |-> "parse_file", val |-> NewProtoFile]>>,
     done |-> FALSE, result |-> <<>>]

Top(p) == p.stack[Len(p.stack)]

\* An Err leaves every call in progress through its `?`.
Fail(p, err) == [p EXCEPT !.stack = <<>>, !.done = TRUE, !.result = err]

\* A call of a function with a loop: its head runs, then its loop is the
\* innermost one.
Call(p, fn, head) ==
    IF head.ok
    THEN [p EXCEPT !.pos = head.pos,
                   !.stack = Append(@, [fn |-> fn, val |-> head.val])]
    ELSE Fail(p, head)

\* `val.<field>.push(item?)` in the innermost loop.
Push(p, field, item) ==
    IF item.ok
    THEN [p EXCEPT !.pos = item.pos,
                   !.stack[Len(p.stack)].val[field] = Append(@, item.val)]
    ELSE Fail(p, item)

\* Where the caller pushes what the innermost call returns.
ReturnField(fn, caller_fn) ==
    CASE fn = "parse_message" ->
            IF caller_fn = "parse_file" THEN "messages" ELSE "nested_messages"
      [] fn = "parse_enum" ->
            IF caller_fn = "parse_file" THEN "enums" ELSE "nested_enums"
      [] fn = "parse_service" -> "services"

\* After the loop: `self.expect(Token::RightBrace)?; Ok(val)`, and the push
\* of the value by the caller.
Return(p, rb) ==
    IF rb.ok
    THEN LET n == Len(p.stack)
         IN  [p EXCEPT
                !.pos = rb.pos,
                !.stack =
                    [SubSeq(p.stack, 1, n - 1) EXCEPT
                        ![n - 1].val[ReturnField(p.stack[n].fn,
                                                 p.stack[n - 1].fn)]
                            = Append(@, p.stack[n].val)]]
    ELSE Fail(p, rb)

\* parse_enum: one iteration of its loop, or the return after it.
ParseEnumStep(p) ==
    LET k == Current(p.toks, p.pos).k
    IN  IF k = "RightBrace" \/ k = "Eof"
        THEN Return(p, Expect(p.toks, p.pos, "RightBrace"))
        ELSE IF k = "Identifier"
        THEN Push(p, "values", ParseEnumValue(p.toks, p.pos))
        ELSE [p EXCEPT !.pos = Advance(p.toks, p.pos)]

\* parse_message: one iteration of its loop, or the return after it.
ParseMessageStep(p) ==
    LET k == Current(p.toks, p.pos).k
    IN  IF k = "RightBrace" \/ k = "Eof"
        THEN Return(p, Expect(p.toks, p.pos, "RightBrace"))
        ELSE CASE k = "Message" ->
                    Call(p, "parse_message", ParseMessageHead(p.toks, p.pos))
               [] k = "Enum" ->
                    Call(p, "parse_enum", ParseEnumHead(p.toks, p.pos))
               [] k \in {"Optional", "Required", "Repeated", "Identifier"} ->
                    Push(p, "fields", ParseField(p.toks, p.pos))
               [] k = "Map" ->
                    Push(p, "fields", ParseMapField(p.toks, p.pos))
               [] OTHER -> [p EXCEPT !.pos = Advance(p.toks, p.pos)]

\* parse_service: one iteration of its loop, or the return after it.
ParseServiceStep(p) ==
    LET k == Current(p.toks, p.pos).k
    IN  IF k = "RightBrace" \/ k = "Eof"
        THEN Return(p, Expect(p.toks, p.pos, "RightBrace"))
        ELSE IF k = "Rpc"
        THEN Push(p, "methods", ParseMethod(p.toks, p.pos))
        ELSE [p EXCEPT !.pos = Advance(p.toks, p.pos)]

\* `syntax = "..." ;` at the top level, at the word syntax.
ParseSyntax(toks, pos) ==
    Try(Expect(toks, Advance(toks, pos), "Equals"), LAMBDA eq :
        Expect(toks, SkipStringLiteral(toks, eq.pos), "Semicolon"))

\* `package a.b ;` at the top level: Some(name).
ParsePackage(toks, pos) ==
    Try(ParseQualifiedName(toks, Advance(toks, pos)), LAMBDA name :
    Try(Expect(toks, name.pos, "Semicolon"), LAMBDA semi :
        Ok(semi.pos, <<name.val>>)))

\* `import "..." ;` at the top level: the literal, if there is one.
ParseImport(toks, pos) ==
    Try(Expect(toks, SkipStringLiteral(toks, Advance(toks, pos)), "Semicolon"),
        LAMBDA semi :
        Ok(semi.pos,
           IF Current(toks, Advance(toks, pos)).k = "StringLiteral"
           THEN <<Current(toks, Advance(toks, pos)).s>>
           ELSE <<>>))

\* A statement that only moves the cursor.
Skip(p, item) == IF item.ok THEN [p EXCEPT !.pos = item.pos] ELSE Fail(p, item)

\* `file.package = Some(name?)`
Set(p, field, item) ==
    IF item.ok
    THEN [p EXCEPT !.pos = item.pos,
                   !.stack[Len(p.stack)].val[field] = item.val]
    ELSE Fail(p, item)

\* `file.imports.push(s)` when there is a literal.
Extend(p, field, item) ==
    IF item.ok
    THEN [p EXCEPT !.pos = item.pos,
                   !.stack[Len(p.stack)].val[field] = @ \o item.val]
    ELSE Fail(p, item)

\* A top level that takes an unknown token for an error.
ParseFileStep_StrictTopLevel(p) ==
    LET cur == Current(p.toks, p.pos)
        k == cur.k
    IN  IF k = "Eof"
        THEN [p EXCEPT !.stack = <<>>, !.done = TRUE,
                       !.result = Ok(p.pos, Top(p).val)]
        ELSE IF k = "Identifier" /\ cur.s = "syntax"
        THEN Skip(p, ParseSyntax(p.toks, p.pos))
        ELSE CASE k = "Package" ->
                    Set(p, "package", ParsePackage(p.toks, p.pos))
               [] k = "Import" ->
                    Extend(p, "imports", ParseImport(p.toks, p.pos))
               [] k = "Message" ->
                    Call(p, "parse_message", ParseMessageHead(p.toks, p.pos))
               [] k = "Enum" ->
                    Call(p, "parse_enum", ParseEnumHead(p.toks, p.pos))
               [] k = "Service" ->
                    Call(p, "parse_service", ParseServiceHead(p.toks, p.pos))
               [] OTHER -> Fail(p, ParseError("Unexpected token", cur))

\* parse_file: one iteration of its loop, or `Ok(file)` after it.
ParseFileStep(p) ==
    LET cur == Current(p.toks, p.pos)
        k == cur.k
    IN  IF k = "Eof"
        THEN [p EXCEPT !.stack = <<>>, !.done = TRUE,
                       !.result = Ok(p.pos, Top(p).val)]
        ELSE IF k = "Identifier" /\ cur.s = "syntax"
        THEN Skip(p, ParseSyntax(p.toks, p.pos))
        ELSE CASE k = "Package" ->
                    Set(p, "package", ParsePackage(p.toks, p.pos))
               [] k = "Import" ->
                    Extend(p, "imports", ParseImport(p.toks, p.pos))
               [] k = "Message" ->
                    Call(p, "parse_message", ParseMessageHead(p.toks, p.pos))
               [] k = "Enum" ->
                    Call(p, "parse_enum", ParseEnumHead(p.toks, p.pos))
               [] k = "Service" ->
                    Call(p, "parse_service", ParseServiceHead(p.toks, p.pos))
               [] OTHER -> [p EXCEPT !.pos = Advance(p.toks, p.pos)]

\* The next step of the parser: that of the innermost call.
ParserStep(p) ==
    IF p.done THEN p
    ELSE CASE Top(p).fn = "parse_file" -> ParseFileStep(p)
           [] Top(p).fn = "parse_message" -> ParseMessageStep(p)
           [] Top(p).fn = "parse_enum" -> ParseEnumStep(p)
           [] Top(p).fn = "parse_service" -> ParseServiceStep(p)

\* Up to n steps from p, taken as two halves to keep the evaluation shallow.
RECURSIVE ParserRun(_, _)
ParserRun(p, n) ==
    IF p.done \/ n = 0 THEN p
    ELSE IF n = 1 THEN ParserStep(p)
    ELSE ParserRun(ParserRun(p, n \div 2), n - (n \div 2))

\* Parser::parse_file: every step but the last consumes a token.
ParseFile(toks) == ParserRun(ParserStart(toks), Len(toks) + 1).result

\* parse_proto: Parser::new tokenizes, parse_file parses.
parse_proto(content) == ParseFile(tokenize(content))

(***************************************************************************)
(* Protobuf provider: name resolution helpers of types.rs.                 *)
(***************************************************************************)
\* Message::all_nested_messages, and the loop it shares with
\* ProtoFile::all_messages: each message followed by its nested ones.
RECURSIVE all_nested_messages(_), messages_with_nested(_)
all_nested_messages(message) == messages_with_nested(message.nested_messages)

messages_with_nested(messages) ==
    IF messages = <<>> THEN <<>>
    ELSE <<Head(messages)>> \o all_nested_messages(Head(messages))
         \o messages_with_nested(Tail(messages))

\* ProtoFile::all_messages
all_messages(proto) == messages_with_nested(proto.messages)

\* Message::all_nested_enums: its own enums, then those of its nested
\* messages.
RECURSIVE all_nested_enums(_), enums_of_messages(_)
all_nested_enums(message) ==
    message.nested_enums \o enums_of_messages(message.nested_messages)

enums_of_messages(messages) ==
    IF messages = <<>> THEN <<>>
    ELSE all_nested_enums(Head(messages)) \o enums_of_messages(Tail(messages))

\* ProtoFile::all_enums
all_enums(proto) == proto.enums \o enums_of_messages(proto.messages)

\* ProtoFile::build_message_map, as the set of its keys (the code only asks
\* contains_key).
build_message_map(proto) ==
    {all_messages(proto)[k].name : k \in 1..Len(all_messages(proto))}

\* ProtoFile::build_enum_map, as the set of its keys.
build_enum_map(proto) ==
    {all_enums(proto)[k].name : k \in 1..Len(all_enums(proto))}

(***************************************************************************)
(* Protobuf provider: AST to IR (lib.rs).  A TypeExpr::Named is its        *)
(* string.                                                                 *)
(***************************************************************************)
\* NamingStrategy::PascalCase of the type generator: a name already in
\* Pascal case is unchanged, a lower-case word gets an upper-case initial
\* (a table "users" is the record "Users").
NamingApply(name) ==
    CASE name = "users" -> "Users"
      [] name = "items" -> "Items"
      [] OTHER -> name

\* The `match field_type` of field_type_to_type_expr, with the `Required`
\* label of the recursive calls for a map's key and value.
RECURSIVE BaseType(_, _, _)
BaseType(field_type, message_map, enum_map) ==
    LET t == field_type.t
    IN  CASE t \in {"Double", "Float"} -> "float"
          [] t \in {"Int32", "SInt32", "SFixed32"} -> "int"
          [] t \in {"Int64", "SInt64", "SFixed64"} -> "int64"
          [] t \in {"UInt32", "Fixed32"} -> "uint"
          [] t \in {"UInt64", "Fixed64"} -> "uint64"
          [] t = "Bool" -> "bool"
          [] t = "String" -> "string"
          [] t = "Bytes" -> "bytes"
          [] t = "Message" ->
                IF field_type.name \in message_map
                THEN NamingApply(field_type.name)
                ELSE NamingApply(field_type.name)
          [] t = "Enum" ->
                IF field_type.name \in enum_map
                THEN NamingApply(field_type.name)
                ELSE NamingApply(field_type.name)
          [] t = "Map" ->
                "Map<" \o BaseType(field_type.key, message_map, enum_map)
                \o ", " \o BaseType(field_type.value, message_map, enum_map)
                \o ">"

\* "Apply label modifiers"
ApplyLabel_RepeatedAlsoOptional(base_type, label) ==
    CASE label = "Optional" -> base_type \o " option"
      [] label = "Required" -> base_type
      [] label = "Repeated" -> base_type \o " list option"

ApplyLabel(base_type, label) ==
    CASE label = "Optional" -> base_type \o " option"
      [] label = "Required" -> base_type
      [] label = "Repeated" -> base_type \o " list"

\* ProtobufProvider::field_type_to_type_expr
field_type_to_type_expr(field_type, label, message_map, enum_map) ==
    ApplyLabel(BaseType(field_type, message_map, enum_map), label)

\* ProtobufProvider::message_to_typedef
message_to_typedef(message, message_map, enum_map) ==
    [kind |-> "Record",
     name |-> NamingApply(message.name),
     fields |-> [k \in 1..Len(message.fields) |->
                    <<message.fields[k].name,
                      field_type_to_type_expr(message.fields[k].field_type,
                                              message.fields[k].label,
                                              message_map, enum_map)>>]]

\* ProtobufProvider::enum_to_typedef
enum_to_typedef(enum_def) ==
    [kind |-> "Du",
     name |-> NamingApply(enum_def.name),
     variants |-> [k \in 1..Len(enum_def.values) |->
                      NamingApply(enum_def.values[k].name)]]

enums_to_typedefs(enums) ==
    [k \in 1..Len(enums) |-> enum_to_typedef(enums[k])]

\* ProtobufProvider::process_message: `types` is module.types, returned with
\* the declarations of `message` pushed.
RECURSIVE process_message(_, _, _, _), process_messages(_, _, _, _)
process_message_RecordFirst(message, types, message_map, enum_map) ==
    process_messages(message.nested_messages,
                     Append(types,
                            message_to_typedef(message, message_map, enum_map))
                     \o enums_to_typedefs(message.nested_enums),
                     message_map, enum_map)

process_message(message, types, message_map, enum_map) ==
    Append(process_messages(message.nested_messages,
                            types \o enums_to_typedefs(message.nested_enums),
                            message_map, enum_map),
           message_to_typedef(message, message_map, enum_map))

\* `for message in ... { self.process_message(message, ...)? }`
process_messages(messages, types, message_map, enum_map) ==
    IF messages = <<>> THEN types
    ELSE process_messages(Tail(messages),
                          process_message(Head(messages), types, message_map,
                                          enum_map),
                          message_map, enum_map)

\* A split that keeps the package name whole.
RECURSIVE SplitDots_Whole(_, _)
SplitDots_Whole(pieces, segment) ==
    IF pieces = <<>> THEN <<segment>>
    ELSE SplitDots_Whole(Tail(pieces), segment \o Head(pieces))

\* package.split('.') on the pieces of the package name.
RECURSIVE SplitDots(_, _)
SplitDots(pieces, segment) ==
    IF pieces = <<>> THEN <<segment>>
    ELSE IF Head(pieces) = "."
         THEN <<segment>> \o SplitDots(Tail(pieces), "")
         ELSE SplitDots(Tail(pieces), segment \o Head(pieces))

\* ProtobufProvider::generate_from_proto
generate_from_proto(proto, namespace) ==
    LET module_path == IF proto.package # <<>>
                       THEN SplitDots(proto.package[1], "")
                       ELSE <<namespace>>
        message_map == build_message_map(proto)
        enum_map == build_enum_map(proto)
        types == process_messages(proto.messages,
                                  enums_to_typedefs(proto.enums),
                                  message_map, enum_map)
    IN  [root_types |-> <<>>,
         modules |-> IF types # <<>>
                     THEN <<[path |-> module_path, types |-> types]>>
                     ELSE <<>>]

(***************************************************************************)
(* Protobuf provider: the schema texts of the model.  Each is the          *)
(* character sequence of a .proto source: the end-to-end example, one      *)
(* message with up to MaxFields fields of every label and type shape,      *)
(* every nesting of up to MaxMsgs messages, each with an optional          *)
(* reference field `r` and an optional nested enum E, written after the    *)
(* nested messages, a message with one field production that lacks a part  *)
(* or has an invalid tag, and a file with a package statement of up to     *)
(* MaxSegs segments.                                                       *)
(***************************************************************************)
W_message == <<"m", "e", "s", "s", "a", "g", "e">>

W_enum == <<"e", "n", "u", "m">>

W_optional == <<"o", "p", "t", "i", "o", "n", "a", "l">>

W_required == <<"r", "e", "q", "u", "i", "r", "e", "d">>

W_repeated == <<"r", "e", "p", "e", "a", "t", "e", "d">>

W_map == <<"m", "a", "p">>

W_string == <<"s", "t", "r", "i", "n", "g">>

W_int32 == <<"i", "n", "t", "3", "2">>

W_Status == <<"S", "t", "a", "t", "u", "s">>

W_User == <<"U", "s", "e", "r">>

\* The words of a source text, each followed by one space.
RECURSIVE Words(_)
Words(ws) == IF ws = <<>> THEN <<>> ELSE Head(ws) \o <<" ">> \o Words(Tail(ws))

DigitChar(n) == <<"0", "1", "2", "3", "4", "5", "6", "7", "8", "9">>[n + 1]

LabelWords(label) ==
    CASE label = "optional" -> <<W_optional>>
      [] label = "required" -> <<W_required>>
      [] label = "repeated" -> <<W_repeated>>
      [] OTHER -> <<>>

\* The n-th field of a message is named f<n>, the n-th message of a text
\* (in the order they open) is named by the n-th letter.
FieldName(number) == "f" \o DigitChar(number)

MsgName(number) == <<"A", "B", "C", "D", "G">>[number]

\* The characters of the type names and field names the texts use.
TypeWord(type) ==
    CASE type = "string" -> W_string
      [] type = "int32" -> W_int32
      [] type = "Status" -> W_Status
      [] OTHER -> <<type>>

FieldWord(number) == <<"f", DigitChar(number)>>

FieldSrc ==
    [label : {"", "optional", "required", "repeated"},
     type : {"string", "int32", "Status"}]
    \cup
    [label : {"map"}, type : {"string"}, value : {"int32", "Status"}]

FieldText(f, number) ==
    IF f.label = "map"
    THEN Words(<<W_map, <<"<">>, TypeWord(f.type), <<",">>,
                 TypeWord(f.value), <<">">>, FieldWord(number), <<"=">>,
                 <<DigitChar(number)>>, <<";">>>>)
    ELSE Words(LabelWords(f.label)
               \o <<TypeWord(f.type), FieldWord(number), <<"=">>,
                    <<DigitChar(number)>>, <<";">>>>)

RECURSIVE FieldsText(_, _)
FieldsText(fs, number) ==
    IF fs = <<>> THEN <<>>
    ELSE FieldText(Head(fs), number) \o FieldsText(Tail(fs), number + 1)

FieldInputs ==
    {[src |-> [family |-> "fields", fields |-> fs],
      content |-> Words(<<W_message, W_User, <<"{">>>>) \o FieldsText(fs, 1)
                  \o <<"}">>] :
        fs \in SeqsUpTo(FieldSrc, MaxFields)}

\* What the field `r` of a message refers to, if the message has one.
RefChoices == {"", "B", "E"}

\* Every forest of exactly n message nodes.
RECURSIVE Forests(_)
Forests(n) ==
    IF n = 0 THEN {<<>>}
    ELSE UNION {
            {<<[ref |-> r, has_enum |-> e, nested |-> sub]>> \o rest :
                r \in RefChoices, e \in BOOLEAN,
                sub \in Forests(k - 1), rest \in Forests(n - k)} :
            k \in 1..n}

RECURSIVE ForestSize(_)
ForestSize(forest) ==
    IF forest = <<>> THEN 0
    ELSE 1 + ForestSize(Head(forest).nested) + ForestSize(Tail(forest))

\* The text of a forest whose first message is the number-th of the text.
RECURSIVE ForestText(_, _)
ForestText(forest, number) ==
    IF forest = <<>> THEN <<>>
    ELSE LET node == Head(forest)
         IN  Words(<<W_message, <<MsgName(number)>>, <<"{">>>>)
             \o (IF node.ref # ""
                 THEN Words(<<<<node.ref>>, <<"r">>, <<"=">>, <<"1">>, <<";">>>>)
                 ELSE <<>>)
             \o ForestText(node.nested, number + 1)
             \o (IF node.has_enum
                 THEN Words(<<W_enum, <<"E">>, <<"{">>, <<"X">>, <<"=">>,
                              <<"0">>, <<";">>, <<"}">>>>)
                 ELSE <<>>)
             \o <<"}", " ">>
             \o ForestText(Tail(forest),
                           number + 1 + ForestSize(node.nested))

NestInputs ==
    {[src |-> [family |-> "nest", forest |-> f], content |-> ForestText(f, 1)] :
        f \in UNION {Forests(n) : n \in 0..MaxMsgs}}

\* enum Status { UNKNOWN = 0; ACTIVE = 1; } message User { string id = 1;
\* Status status = 2; repeated string tags = 3; }
ExampleInput ==
    <<"e", "n", "u", "m", " ", "S", "t", "a", "t", "u", "s", " ",
        "{", " ", "U", "N", "K", "N", "O", "W", "N", " ", "=", " ",
        "0", ";", " ", "A", "C", "T", "I", "V", "E", " ", "=", " ",
        "1", ";", " ", "}", " ", "m", "e", "s", "s", "a", "g", "e",
        " ", "U", "s", "e", "r", " ", "{", " ", "s", "t", "r", "i",
        "n", "g", " ", "i", "d", " ", "=", " ", "1", ";", " ", "S",
        "t", "a", "t", "u", "s", " ", "s", "t", "a", "t", "u", "s",
        " ", "=", " ", "2", ";", " ", "r", "e", "p", "e", "a", "t",
        "e", "d", " ", "s", "t", "r", "i", "n", "g", " ", "t", "a",
        "g", "s", " ", "=", " ", "3", ";", " ", "}" >>

\* How one field production departs from `type name = number ;`: a part
\* left out, or a tag that is no non-negative integer ("" for none).
Mutations == {"", "type", "name", "equals", "number", "semicolon",
              "-1", "1.5", "1-2"}

\* The head of the production: a plain type, a label and a type, a map type.
FieldHeads == {"plain", "repeated", "map"}

HeadWords(head, mutation) ==
    CASE head = "map" -> <<W_map, <<"<">>, W_string, <<",">>, W_int32, <<">">>>>
      [] head = "repeated" ->
            <<W_repeated>> \o (IF mutation = "type" THEN <<>> ELSE <<W_string>>)
      [] OTHER -> IF mutation = "type" THEN <<>> ELSE <<W_string>>

TagWord(mutation) ==
    CASE mutation = "-1" -> <<"-", "1">>
      [] mutation = "1.5" -> <<"1", ".", "5">>
      [] mutation = "1-2" -> <<"1", "-", "2">>
      [] OTHER -> <<"2">>

\* The production of the field f2, tag 2, with the mutation applied.
MutatedFieldText(head, mutation) ==
    Words(HeadWords(head, mutation)
          \o (IF mutation = "name" THEN <<>> ELSE <<FieldWord(2)>>)
          \o (IF mutation = "equals" THEN <<>> ELSE <<<<"=">>>>)
          \o (IF mutation = "number" THEN <<>> ELSE <<TagWord(mutation)>>)
          \o (IF mutation = "semicolon" THEN <<>> ELSE <<<<";">>>>))

MalformedSrc ==
    {m \in [family : {"malformed"}, before : BOOLEAN, lead : BOOLEAN,
            head : FieldHeads, mutation : Mutations] :
        ~(m.head = "map" /\ m.mutation = "type")}

\* `message A { string f1 = 1 ; }` if before, then `message User {`, the
\* field f1 if lead, the mutated field f2, `}`.
MalformedText(m) ==
    (IF m.before
     THEN Words(<<W_message, <<"A">>, <<"{">>>>)
          \o FieldText([label |-> "", type |-> "string"], 1) \o <<"}", " ">>
     ELSE <<>>)
    \o Words(<<W_message, W_User, <<"{">>>>)
    \o (IF m.lead THEN FieldText([label |-> "", type |-> "string"], 1)
        ELSE <<>>)
    \o MutatedFieldText(m.head, m.mutation)
    \o <<"}">>

MalformedInputs == {[src |-> m, content |-> MalformedText(m)] : m \in MalformedSrc}

W_package == <<"p", "a", "c", "k", "a", "g", "e">>

\* The segments a package name is written from, and their characters.
Segments == {"example", "v1"}

SegmentWord(segment) ==
    CASE segment = "example" -> <<"e", "x", "a", "m", "p", "l", "e">>
      [] segment = "v1" -> <<"v", "1">>

\* `example.v1`: the segments with a `.` between them.
RECURSIVE PackageName(_)
PackageName(segments) ==
    IF Len(segments) = 1 THEN SegmentWord(segments[1])
    ELSE SegmentWord(Head(segments)) \o <<".">> \o PackageName(Tail(segments))

\* What the file declares after its package statement.
PackageBodies == {"none", "message", "enum"}

BodyText(body) ==
    CASE body = "message" -> Words(<<W_message, W_User, <<"{">>, <<"}">>>>)
      [] body = "enum" ->
            Words(<<W_enum, W_Status, <<"{">>, <<"X">>, <<"=">>, <<"0">>,
                    <<";">>, <<"}">>>>)
      [] OTHER -> <<>>

\* `package example.v1 ;` (no statement for the empty package), then the
\* body.
PackageText(segments, body) ==
    (IF segments = <<>> THEN <<>>
     ELSE Words(<<W_package, PackageName(segments), <<";">>>>))
    \o BodyText(body)

PackageInputs ==
    {[src |-> [family |-> "package", package |-> segments, body |-> body],
      content |-> PackageText(segments, body)] :
        segments \in SeqsUpTo(Segments, MaxSegs), body \in PackageBodies}

\* Tokens that start no top-level construct, as they are written.
StrayWords == {";", "}", "1", "\"s\"", "foo", "rpc"}

StrayWord(w) ==
    CASE w = "\"s\"" -> <<"\"", "s", "\"">>
      [] w = "foo" -> <<"f", "o", "o">>
      [] w = "rpc" -> <<"r", "p", "c">>
      [] OTHER -> <<w>>

\* The top-level declarations a text is written from.
TopLevelWords == {"package", "message", "enum"}

TopLevelText(decl) ==
    IF decl = "package"
    THEN Words(<<W_package, SegmentWord("example"), <<";">>>>)
    ELSE BodyText(decl)

TopLevelLists ==
    {<<>>} \cup {<<a>> : a \in TopLevelWords}
        \cup {<<a, b>> : a \in TopLevelWords, b \in TopLevelWords}

RECURSIVE StrayWordsText(_)
StrayWordsText(stray) ==
    IF stray = <<>> THEN <<>>
    ELSE StrayWord(Head(stray)) \o <<" ">> \o StrayWordsText(Tail(stray))

\* The declarations from the n-th on, with the stray tokens after the
\* at-th declaration (before the first one when at = 0).
RECURSIVE StrayText(_, _, _, _)
StrayText(decls, at, stray, n) ==
    (IF at = n - 1 THEN StrayWordsText(stray) ELSE <<>>)
    \o (IF n > Len(decls) THEN <<>>
        ELSE TopLevelText(decls[n]) \o StrayText(decls, at, stray, n + 1))

StrayInputs ==
    {[src |-> [family |-> "stray", decls |-> decls, at |-> at, stray |-> stray],
      content |-> StrayText(decls, at, stray, 1)] :
        decls \in TopLevelLists, at \in 0..2,
        stray \in SeqsUpTo(StrayWords, MaxStray) \ {<<>>}}

W_service == <<"s", "e", "r", "v", "i", "c", "e">>

W_rpc == <<"r", "p", "c">>

W_returns == <<"r", "e", "t", "u", "r", "n", "s">>

W_stream == <<"s", "t", "r", "e", "a", "m">>

\* What follows the signature of an rpc method: `;`, a body with balanced
\* braces, or the body `{ { {`, which no text of the model closes.
ClosedBodies == {"{ }", "{ { } }", "{ rpc ; message }", "{ \"}\" }"}

UnclosedBody == "{ { {"

MethodEnds == {";", UnclosedBody} \cup ClosedBodies

MethodEndWords(end) ==
    CASE end = ";" -> <<<<";">>>>
      [] end = "{ }" -> <<<<"{">>, <<"}">>>>
      [] end = "{ { } }" -> <<<<"{">>, <<"{">>, <<"}">>, <<"}">>>>
      [] end = "{ rpc ; message }" ->
            <<<<"{">>, W_rpc, <<";">>, W_message, <<"}">>>>
      [] end = "{ \"}\" }" -> <<<<"{">>, <<"\"", "}", "\"">>, <<"}">>>>
      [] end = UnclosedBody -> <<<<"{">>, <<"{">>, <<"{">>>>

\* `rpc M<n> ( A ) returns ( stream B ) end`
MethodText(end, n) ==
    Words(<<W_rpc, <<"M", DigitChar(n)>>, <<"(">>, <<"A">>, <<")">>, W_returns,
            <<"(">>, W_stream, <<"B">>, <<")">>>> \o MethodEndWords(end))

RECURSIVE MethodsText(_, _)
MethodsText(ends, n) ==
    IF n > Len(ends) THEN <<>>
    ELSE MethodText(ends[n], n) \o MethodsText(ends, n + 1)

\* `service S { methods }`, then `message User { }` if tail.
ServiceText(ends, tail) ==
    Words(<<W_service, <<"S">>, <<"{">>>>) \o MethodsText(ends, 1)
    \o <<"}", " ">>
    \o (IF tail THEN BodyText("message") ELSE <<>>)

ServiceInputs ==
    {[src |-> [family |-> "service", ends |-> ends, tail |-> tail],
      content |-> ServiceText(ends, tail)] :
        ends \in SeqsUpTo(MethodEnds, MaxMethods) \ {<<>>}, tail \in BOOLEAN}

\* Lexical pieces that end where they are written: whitespace, a line
\* comment with its newline, block comments, a `;` and a string literal.
ClosedPieces == {"newline", "space", "// ;", "/* ; */", "/***/", ";", "\"/*\""}

\* Pieces that run to the end of the text: an unterminated string, an
\* unterminated block comment, a line comment without newline; "" is none.
OpenPieces == {"", "\"; //", "/* ; \"", "/*/", "// ;"}

PieceChars(piece) ==
    CASE piece = "newline" -> <<"\n">>
      [] piece = "space" -> <<" ">>
      [] piece = "// ;" -> <<"/", "/", " ", ";", "\n">>
      [] piece = "/* ; */" -> <<"/", "*", " ", ";", " ", "*", "/">>
      [] piece = "/***/" -> <<"/", "*", "*", "*", "/">>
      [] piece = ";" -> <<";">>
      [] piece = "\"/*\"" -> <<"\"", "/", "*", "\"">>

OpenPieceChars(piece) ==
    CASE piece = "" -> <<>>
      [] piece = "\"; //" -> <<"\"", ";", " ", "/", "/">>
      [] piece = "/* ; \"" -> <<"/", "*", " ", ";", " ", "\"">>
      [] piece = "/*/" -> <<"/", "*", "/">>
      [] piece = "// ;" -> <<"/", "/", " ", ";">>

RECURSIVE PiecesText(_)
PiecesText(pieces) ==
    IF pieces = <<>> THEN <<>>
    ELSE PieceChars(Head(pieces)) \o PiecesText(Tail(pieces))

LexicalInputs ==
    {[src |-> [family |-> "lexical", pieces |-> pieces, open |-> open],
      content |-> PiecesText(pieces) \o OpenPieceChars(open)] :
        pieces \in SeqsUpTo(ClosedPieces, MaxPieces), open \in OpenPieces}

W_import == <<"i", "m", "p", "o", "r", "t">>

\* The words the tokenizer turns into keyword tokens.
ReservedWords ==
    {"package", "import", "message", "enum", "service", "rpc", "returns",
     "optional", "required", "repeated", "map", "stream"}

NameWord(name) ==
    CASE name = "package" -> W_package
      [] name = "import" -> W_import
      [] name = "message" -> W_message
      [] name = "enum" -> W_enum
      [] name = "service" -> W_service
      [] name = "rpc" -> W_rpc
      [] name = "returns" -> W_returns
      [] name = "optional" -> W_optional
      [] name = "required" -> W_required
      [] name = "repeated" -> W_repeated
      [] name = "map" -> W_map
      [] name = "stream" -> W_stream
      [] OTHER -> FieldWord(2)

\* A field written `[label] string name = 2 ;` or
\* `[label] map < string , int32 > name = 2 ;`, the name being f2 or a
\* reserved word.
LabelledSrc ==
    [family : {"labelled"}, lead : BOOLEAN,
     label : {"", "optional", "required", "repeated"},
     head : {"plain", "map"}, name : {FieldName(2)} \cup ReservedWords]

\* `message User {`, the field f1 if lead, the field, `}`.
LabelledText(m) ==
    Words(<<W_message, W_User, <<"{">>>>)
    \o (IF m.lead THEN FieldText([label |-> "", type |-> "string"], 1)
        ELSE <<>>)
    \o Words(LabelWords(m.label) \o HeadWords(m.head, "")
             \o <<NameWord(m.name), <<"=">>, <<"2">>, <<";">>>>)
    \o <<"}">>

LabelledInputs == {[src |-> m, content |-> LabelledText(m)] : m \in LabelledSrc}

ProtoInputs ==
    {[src |-> [family |-> "example"], content |-> ExampleInput]}
    \cup FieldInputs \cup NestInputs \cup MalformedInputs
    \cup PackageInputs \cup {input \in StrayInputs :
                            input.src.at <= Len(input.src.decls)}
    \cup ServiceInputs
    \cup LexicalInputs
    \cup LabelledInputs

(***************************************************************************)
(* Protobuf provider: generate_types, as the two phases it runs in turn.   *)
(***************************************************************************)
\* src is what the text was written from; the provider never reads it.
ProtoStart(input) ==
    [phase |-> "start", src |-> input.src, content |-> input.content,
     namespace |-> "Example", tokens |-> <<>>, parser |-> <<>>,
     parsed |-> <<>>, generated |-> <<>>]

ProtoIdle ==
    [phase |-> "idle", src |-> [family |-> "none"], content |-> <<>>,
     namespace |-> "", tokens |-> <<>>, parser |-> <<>>, parsed |-> <<>>,
     generated |-> <<>>]

(***************************************************************************)
(* SQL provider: the shared string / parenthesis aware scanner.            *)
(* The locals of the two functions are the fields of sc.                   *)
(***************************************************************************)
SqlChars == {"a", " ", ";", ",", "'", "\"", "(", ")"}

ScanStart(fn, text) ==
    [fn |-> fn, text |-> text, i |-> 1, current |-> <<>>, out |-> <<>>,
     in_string |-> FALSE, string_char |-> " ", depth |-> 0, done |-> FALSE]

ScanIdle == ScanStart("idle", <<>>)

\* Mutant: any quote character closes an open string.
ScanQuote_AnyQuoteCloses(st, ch) ==
    IF st.in_string
    THEN [st EXCEPT !.in_string = FALSE, !.current = Append(@, ch)]
    ELSE [st EXCEPT !.in_string = TRUE, !.string_char = ch,
                    !.current = Append(@, ch)]

\* The quote arm `'\'' | '"'`, the same in both loops.
ScanQuote(st, ch) ==
    IF st.in_string /\ ch = st.string_char
    THEN [st EXCEPT !.in_string = FALSE, !.current = Append(@, ch)]
    ELSE IF ~st.in_string
         THEN [st EXCEPT !.in_string = TRUE, !.string_char = ch,
                         !.current = Append(@, ch)]
         ELSE [st EXCEPT !.current = Append(@, ch)]

\* One iteration of `for ch in sql.chars()` of split_statements.
SplitStatementsChar(st, ch) ==
    CASE ch \in {"'", "\""} -> ScanQuote(st, ch)
      [] ch = "(" /\ ~st.in_string ->
            [st EXCEPT !.depth = @ + 1, !.current = Append(@, ch)]
      [] ch = ")" /\ ~st.in_string ->
            [st EXCEPT !.depth = @ - 1, !.current = Append(@, ch)]
      [] ch = ";" /\ ~st.in_string /\ st.depth = 0 ->
            [st EXCEPT !.out = IF Trim(st.current) # <<>>
                                THEN Append(@, Trim(st.current)) ELSE @,
                       !.current = <<>>]
      [] OTHER -> [st EXCEPT !.current = Append(@, ch)]

\* Mutant: the text after the last `;` is dropped.
SplitStatementsEnd_NoTail(st) == [st EXCEPT !.done = TRUE]

\* After the loop: "Add last statement if it doesn't end with semicolon".
SplitStatementsEnd(st) ==
    [st EXCEPT !.out = IF Trim(st.current) # <<>>
                        THEN Append(@, Trim(st.current)) ELSE @,
               !.done = TRUE]

\* One iteration of `for ch in s.chars()` of split_by_comma.
SplitByCommaChar(st, ch) ==
    CASE ch \in {"'", "\""} -> ScanQuote(st, ch)
      [] ch = "(" /\ ~st.in_string ->
            [st EXCEPT !.depth = @ + 1, !.current = Append(@, ch)]
      [] ch = ")" /\ ~st.in_string ->
            [st EXCEPT !.depth = @ - 1, !.current = Append(@, ch)]
      [] ch = "," /\ ~st.in_string /\ st.depth = 0 ->
            [st EXCEPT !.out = Append(@, st.current), !.current = <<>>]
      [] OTHER -> [st EXCEPT !.current = Append(@, ch)]

SplitByCommaEnd(st) ==
    [st EXCEPT !.out = IF Trim(st.current) # <<>>
                        THEN Append(@, st.current) ELSE @,
               !.done = TRUE]

(***************************************************************************)
(* SQL provider: the str methods the parser uses, on ASCII text.           *)
(***************************************************************************)
LowerCase == <<"a", "b", "c", "d", "e", "f", "g", "h", "i", "j", "k", "l", "m", "n", "o", "p", "q", "r", "s", "t", "u", "v", "w", "x", "y", "z">>

UpperCase == <<"A", "B", "C", "D", "E", "F", "G", "H", "I", "J", "K", "L", "M", "N", "O", "P", "Q", "R", "S", "T", "U", "V", "W", "X", "Y", "Z">>

\* char::to_uppercase
ToUpperChar(c) ==
    IF \E k \in 1..Len(LowerCase) : LowerCase[k] = c
    THEN UpperCase[CHOOSE k \in 1..Len(LowerCase) : LowerCase[k] = c]
    ELSE c

\* str::to_uppercase
ToUppercase(s) == [k \in 1..Len(s) |-> ToUpperChar(s[k])]

\* str::starts_with / str::ends_with / str::contains of a pattern string
StartsWith(s, pat) == Len(pat) <= Len(s) /\ SubSeq(s, 1, Len(pat)) = pat

EndsWith(s, pat) ==
    Len(pat) <= Len(s) /\ SubSeq(s, Len(s) - Len(pat) + 1, Len(s)) = pat

MatchAt(s, k, pat) == SubSeq(s, k, k + Len(pat) - 1) = pat

Contains(s, pat) == \E k \in 1..(Len(s) - Len(pat) + 1) : MatchAt(s, k, pat)

\* str::find of a pattern string: the 1-based start of the first match, 0
\* for None.
Find(s, pat) ==
    IF Contains(s, pat)
    THEN CHOOSE k \in 1..(Len(s) - Len(pat) + 1) :
            /\ MatchAt(s, k, pat)
            /\ \A m \in 1..(k - 1) : ~MatchAt(s, m, pat)
    ELSE 0

\* str::find of a character class, from position i on: the first position
\* holding a character of the set, Len(s) + 1 for None.
FindIn(s, i, of) ==
    CHOOSE j \in i..(Len(s) + 1) :
        /\ \A m \in i..(j - 1) : s[m] \notin of
        /\ j = Len(s) + 1 \/ s[j] \in of

Whitespace == {" ", "\t", "\n", "\r"}

\* The character U+0060, which a string literal here cannot hold.
BackQuote == "backquote"

\* str::trim_matches(c)
TrimMatches(s, c) ==
    IF \A k \in 1..Len(s) : s[k] = c THEN <<>>
    ELSE SubSeq(s,
                CHOOSE a \in 1..Len(s) :
                    s[a] # c /\ \A m \in 1..(a - 1) : s[m] = c,
                CHOOSE b \in 1..Len(s) :
                    s[b] # c /\ \A m \in (b + 1)..Len(s) : s[m] = c)

\* The positions where a word starts, and the n-th of them.
WordStarts(s) ==
    {k \in 1..Len(s) :
        ~IsWhitespace(s[k]) /\ (k = 1 \/ IsWhitespace(s[k - 1]))}

Nth(S, n) == CHOOSE x \in S : Cardinality({y \in S : y < x}) = n - 1

\* str::split_whitespace().collect()
SplitWhitespace(s) ==
    [n \in 1..Cardinality(WordStarts(s)) |->
        SubSeq(s, Nth(WordStarts(s), n),
               FindIn(s, Nth(WordStarts(s), n), Whitespace) - 1)]

\* str::split(sep).collect() for a one-character separator: the pieces
\* between the separators, empty ones included.
SplitChar(s, sep) ==
    [n \in 1..(Cardinality({k \in 1..Len(s) : s[k] = sep}) + 1) |->
        SubSeq(s,
               IF n = 1 THEN 1
               ELSE Nth({k \in 1..Len(s) : s[k] = sep}, n - 1) + 1,
               FindIn(s,
                      IF n = 1 THEN 1
                      ELSE Nth({k \in 1..Len(s) : s[k] = sep}, n - 1) + 1,
                      {sep}) - 1)]

\* parts[a..=b].join(" "), by halves.
RECURSIVE JoinSpace(_, _, _)
JoinSpace(parts, a, b) ==
    IF a > b THEN <<>>
    ELSE IF a = b THEN parts[a]
    ELSE JoinSpace(parts, a, (a + b) \div 2) \o <<" ">>
             \o JoinSpace(parts, (a + b) \div 2 + 1, b)

\* The String of a text.
Str(s) == Collect(s, 1, Len(s))

None == [some |-> FALSE]

Some(v) == [some |-> TRUE, val |-> v]

\* str::parse::<u32>().ok(): an optional `+`, then digits, in range.
StrParseU32(s) ==
    IF s # <<>> /\ s[1] = "+"
    THEN (IF ParseU32(Tail(s), "").ok THEN Some(ParseU32(Tail(s), "").val)
          ELSE None)
    ELSE IF ParseU32(s, "").ok THEN Some(ParseU32(s, "").val)
    ELSE None

(***************************************************************************)
(* SQL provider: parser.rs.  A function that returns ProviderResult yields *)
(* [ok |-> TRUE, val] or [ok |-> FALSE, err]; a panic is an err of kind    *)
(* "panic".  Positions are 1-based.                                        *)
(***************************************************************************)
\* The characters of the string literals of the code.
Lit(w) ==
    CASE w = "CREATE TABLE" -> <<"C", "R", "E", "A", "T", "E", " ", "T", "A", "B", "L", "E">>
      [] w = "IF NOT EXISTS" -> <<"I", "F", " ", "N", "O", "T", " ", "E", "X", "I", "S", "T", "S">>
      [] w = "PRIMARY KEY" -> <<"P", "R", "I", "M", "A", "R", "Y", " ", "K", "E", "Y">>
      [] w = "PRIMARYKEY" -> <<"P", "R", "I", "M", "A", "R", "Y", "K", "E", "Y">>
      [] w = "UNIQUE" -> <<"U", "N", "I", "Q", "U", "E">>
      [] w = "FOREIGN KEY" -> <<"F", "O", "R", "E", "I", "G", "N", " ", "K", "E", "Y">>
      [] w = "CONSTRAINT" -> <<"C", "O", "N", "S", "T", "R", "A", "I", "N", "T">>
      [] w = "CHECK" -> <<"C", "H", "E", "C", "K">>
      [] w = "NOT NULL" -> <<"N", "O", "T", " ", "N", "U", "L", "L">>
      [] w = "NULL" -> <<"N", "U", "L", "L">>
      [] w = "AUTO_INCREMENT" -> <<"A", "U", "T", "O", "_", "I", "N", "C", "R", "E", "M", "E", "N", "T">>
      [] w = "AUTOINCREMENT" -> <<"A", "U", "T", "O", "I", "N", "C", "R", "E", "M", "E", "N", "T">>
      [] w = "DEFAULT" -> <<"D", "E", "F", "A", "U", "L", "T">>
      [] w = "[]" -> <<"[", "]">>

SqlOk(val) == [ok |-> TRUE, val |-> val]

SqlError(msg) == [ok |-> FALSE, err |-> [kind |-> "ParseError", msg |-> msg]]

SqlPanic(msg) == [ok |-> FALSE, err |-> [kind |-> "panic", msg |-> msg]]

\* split_statements: the loop over sql.chars(), by halves.
RECURSIVE SplitStatementsRun(_, _, _)
SplitStatementsRun(st, a, b) ==
    IF st.done \/ a > b THEN st
    ELSE IF a = b THEN SplitStatementsChar(st, st.text[a])
    ELSE SplitStatementsRun(SplitStatementsRun(st, a, (a + b) \div 2),
                            (a + b) \div 2 + 1, b)

split_statements(sql) ==
    SplitStatementsEnd(
        SplitStatementsRun(ScanStart("split_statements", sql), 1, Len(sql))).out

\* split_by_comma: the loop over s.chars(), by halves.
RECURSIVE SplitByCommaRun(_, _, _)
SplitByCommaRun(st, a, b) ==
    IF st.done \/ a > b THEN st
    ELSE IF a = b THEN SplitByCommaChar(st, st.text[a])
    ELSE SplitByCommaRun(SplitByCommaRun(st, a, (a + b) \div 2),
                         (a + b) \div 2 + 1, b)

split_by_comma(s) ==
    SplitByCommaEnd(
        SplitByCommaRun(ScanStart("split_by_comma", s), 1, Len(s))).out

\* extract_table_name, on the trimmed text: a quoted name ends at the next
\* quote character, an unquoted one at the first whitespace or `(`.
ExtractTableNameOf(s) ==
    IF s # <<>> /\ s[1] \in {"\"", BackQuote}
    THEN (IF FindIn(s, 2, {s[1]}) > Len(s)
          THEN SqlError("Unclosed quoted table name")
          ELSE SqlOk([table_name |-> SubSeq(s, 2, FindIn(s, 2, {s[1]}) - 1),
                      rest |-> SubSeq(s, FindIn(s, 2, {s[1]}) + 1, Len(s))]))
    ELSE SqlOk([table_name |->
                    SubSeq(s, 1, FindIn(s, 1, Whitespace \cup {"("}) - 1),
                rest |->
                    SubSeq(s, FindIn(s, 1, Whitespace \cup {"("}), Len(s))])

extract_table_name(s) == ExtractTableNameOf(Trim(s))

\* extract_parentheses_content: `depth`, `end_idx` and whether the loop has
\* taken its `break`.
ParenStart == [depth |-> 0, end_idx |-> 0, broken |-> FALSE]

\* One iteration of `for (i, ch) in s.chars().enumerate()`.
ParenChar(st, ch, i) ==
    IF st.broken THEN st
    ELSE CASE ch = "(" -> [st EXCEPT !.depth = @ + 1]
           [] ch = ")" ->
                IF st.depth - 1 = 0
                THEN [depth |-> 0, end_idx |-> i, broken |-> TRUE]
                ELSE [st EXCEPT !.depth = @ - 1]
           [] OTHER -> st

RECURSIVE ParenRun(_, _, _, _)
ParenRun(st, s, a, b) ==
    IF st.broken \/ a > b THEN st
    ELSE IF a = b THEN ParenChar(st, s[a], a)
    ELSE ParenRun(ParenRun(st, s, a, (a + b) \div 2), s, (a + b) \div 2 + 1, b)

\* After the loop: the content between the first `(` and the `)` at end_idx.
ParenContent(s, st) ==
    IF st.depth # 0 THEN SqlError("Unmatched parentheses")
    ELSE SqlOk([content |-> SubSeq(s, 2, st.end_idx - 1),
                rest |-> SubSeq(s, st.end_idx + 1, Len(s))])

ExtractParenthesesContentOf(s) ==
    IF ~StartsWith(s, <<"(">>) THEN SqlError("Expected opening parenthesis")
    ELSE ParenContent(s, ParenRun(ParenStart, s, 1, Len(s)))

extract_parentheses_content(s) == ExtractParenthesesContentOf(Trim(s))

(***************************************************************************)
(* SQL provider: types.rs.                                                 *)
(***************************************************************************)
\* SqlType::from_str, the `match base_type` of a type with parameters.
ParamType(s, base_type, params) ==
    CASE base_type \in {<<"C", "H", "A", "R">>, <<"C", "H", "A", "R", "A", "C", "T", "E", "R">>} ->
            [t |-> "Char", length |-> StrParseU32(params)]
      [] base_type \in {<<"V", "A", "R", "C", "H", "A", "R">>,
                        <<"C", "H", "A", "R", "A", "C", "T", "E", "R", " ", "V", "A", "R", "Y", "I", "N", "G">>} ->
            [t |-> "VarChar", length |-> StrParseU32(params)]
      [] base_type \in {<<"D", "E", "C", "I", "M", "A", "L">>, <<"D", "E", "C">>} ->
            [t |-> "Decimal",
             precision |-> StrParseU32(Trim(SplitChar(params, ",")[1])),
             scale |-> IF Len(SplitChar(params, ",")) >= 2
                       THEN StrParseU32(Trim(SplitChar(params, ",")[2]))
                       ELSE None]
      [] base_type = <<"N", "U", "M", "E", "R", "I", "C">> ->
            [t |-> "Numeric",
             precision |-> StrParseU32(Trim(SplitChar(params, ",")[1])),
             scale |-> IF Len(SplitChar(params, ",")) >= 2
                       THEN StrParseU32(Trim(SplitChar(params, ",")[2]))
                       ELSE None]
      [] base_type = <<"F", "L", "O", "A", "T">> -> [t |-> "Float"]
      [] OTHER -> [t |-> "Custom", name |-> s]

\* SqlType::from_str, the `match s_trimmed` of a simple type.
SimpleType(s, s_trimmed) ==
    CASE s_trimmed \in {<<"T", "I", "N", "Y", "I", "N", "T">>,
                           <<"I", "N", "T", "1">>} ->
            [t |-> "TinyInt"]
      [] s_trimmed \in {<<"S", "M", "A", "L", "L", "I", "N", "T">>,
                           <<"I", "N", "T", "2">>} ->
            [t |-> "SmallInt"]
      [] s_trimmed \in {<<"I", "N", "T">>,
                           <<"I", "N", "T", "E", "G", "E", "R">>,
                           <<"I", "N", "T", "4">>} ->
            [t |-> "Int"]
      [] s_trimmed \in {<<"B", "I", "G", "I", "N", "T">>,
                           <<"I", "N", "T", "8">>} ->
            [t |-> "BigInt"]
      [] s_trimmed \in {<<"S", "E", "R", "I", "A", "L">>} ->
            [t |-> "Serial"]
      [] s_trimmed \in {<<"B", "I", "G", "S", "E", "R", "I", "A", "L">>} ->
            [t |-> "BigSerial"]
      [] s_trimmed \in {<<"R", "E", "A", "L">>,
                           <<"F", "L", "O", "A", "T", "4">>} ->
            [t |-> "Real"]
      [] s_trimmed \in {<<"D", "O", "U", "B", "L", "E">>,
                           <<"D", "O", "U", "B", "L", "E", " ", "P", "R", "E", "C", "I", "S", "I", "O", "N">>,
                           <<"F", "L", "O", "A", "T", "8">>} ->
            [t |-> "Double"]
      [] s_trimmed \in {<<"F", "L", "O", "A", "T">>} ->
            [t |-> "Float"]
      [] s_trimmed \in {<<"D", "E", "C", "I", "M", "A", "L">>} ->
            [t |-> "Decimal", precision |-> None, scale |-> None]
      [] s_trimmed \in {<<"N", "U", "M", "E", "R", "I", "C">>} ->
            [t |-> "Numeric", precision |-> None, scale |-> None]
      [] s_trimmed \in {<<"C", "H", "A", "R">>,
                           <<"C", "H", "A", "R", "A", "C", "T", "E", "R">>} ->
            [t |-> "Char", length |-> None]
      [] s_trimmed \in {<<"V", "A", "R", "C", "H", "A", "R">>,
                           <<"C", "H", "A", "R", "A", "C", "T", "E", "R", " ", "V", "A", "R", "Y", "I", "N", "G">>} ->
            [t |-> "VarChar", length |-> None]
      [] s_trimmed \in {<<"T", "E", "X", "T">>,
                           <<"L", "O", "N", "G", "T", "E", "X", "T">>,
                           <<"M", "E", "D", "I", "U", "M", "T", "E", "X", "T">>,
                           <<"T", "I", "N", "Y", "T", "E", "X", "T">>} ->
            [t |-> "Text"]
      [] s_trimmed \in {<<"B", "O", "O", "L", "E", "A", "N">>,
                           <<"B", "O", "O", "L">>} ->
            [t |-> "Boolean"]
      [] s_trimmed \in {<<"D", "A", "T", "E">>} ->
            [t |-> "Date"]
      [] s_trimmed \in {<<"T", "I", "M", "E">>} ->
            [t |-> "Time"]
      [] s_trimmed \in {<<"T", "I", "M", "E", "S", "T", "A", "M", "P">>,
                           <<"D", "A", "T", "E", "T", "I", "M", "E">>} ->
            [t |-> "Timestamp"]
      [] s_trimmed \in {<<"T", "I", "M", "E", "S", "T", "A", "M", "P", "T", "Z">>,
                           <<"T", "I", "M", "E", "S", "T", "A", "M", "P", " ", "W", "I", "T", "H", " ", "T", "I", "M", "E", " ", "Z", "O", "N", "E">>} ->
            [t |-> "TimestampTz"]
      [] s_trimmed \in {<<"B", "L", "O", "B">>,
                           <<"B", "I", "N", "A", "R", "Y">>,
                           <<"V", "A", "R", "B", "I", "N", "A", "R", "Y">>} ->
            [t |-> "Blob"]
      [] s_trimmed \in {<<"B", "Y", "T", "E", "A">>} ->
            [t |-> "Bytea"]
      [] s_trimmed \in {<<"J", "S", "O", "N">>} ->
            [t |-> "Json"]
      [] s_trimmed \in {<<"J", "S", "O", "N", "B">>} ->
            [t |-> "JsonB"]
      [] s_trimmed \in {<<"U", "U", "I", "D">>} ->
            [t |-> "Uuid"]
      [] OTHER -> [t |-> "Custom", name |-> s]

\* SqlType::from_str.  `&s_trimmed[idx+1..s_trimmed.len()-1]` panics when
\* the `(` is the last character.
RECURSIVE SqlTypeFromStr(_)
SqlTypeOf(s, s_trimmed) ==
    IF Find(s_trimmed, <<"(">>) # 0
    THEN (IF Find(s_trimmed, <<"(">>) = Len(s_trimmed)
          THEN [t |-> "Panic"]
          ELSE ParamType(s,
                         SubSeq(s_trimmed, 1, Find(s_trimmed, <<"(">>) - 1),
                         SubSeq(s_trimmed, Find(s_trimmed, <<"(">>) + 1,
                                Len(s_trimmed) - 1)))
    ELSE IF EndsWith(s_trimmed, Lit("[]"))
    THEN [t |-> "Array",
          element_type |->
              SqlTypeFromStr(SubSeq(s_trimmed, 1, Len(s_trimmed) - 2))]
    ELSE SimpleType(s, s_trimmed)

SqlTypeFromStr(s) == SqlTypeOf(s, Trim(ToUppercase(s)))

\* A Constraint: its variant and, for Default, the value.
Constraint(c) == [c |-> c, v |-> <<>>]

\* Column::new
NewColumn(name, sql_type) ==
    [name |-> name, sql_type |-> sql_type, constraints |-> <<>>]

HasConstraint(column, c) ==
    \E k \in 1..Len(column.constraints) : column.constraints[k].c = c

\* Column::is_nullable
is_nullable(column) ==
    ~HasConstraint(column, "NotNull") /\ ~HasConstraint(column, "PrimaryKey")

\* Column::is_primary_key
is_primary_key(column) == HasConstraint(column, "PrimaryKey")

\* Table::new with the fields parse_create_table assigns
NewTable(name, columns, table_constraints) ==
    [name |-> name, columns |-> columns,
     table_constraints |-> table_constraints]

(***************************************************************************)
(* SQL provider: columns, table bodies and statements (parser.rs).         *)
(***************************************************************************)
\* parse_column_constraints: the DEFAULT value is the first word after the
\* keyword, without its quotes; an empty value pushes nothing.
DefaultValue(words) ==
    IF words = <<>> THEN <<>>
    ELSE TrimMatches(TrimMatches(words[1], "'"), "\"")

DefaultConstraint(s, idx) ==
    IF idx = 0 \/ DefaultValue(SplitWhitespace(SubSeq(s, idx + 7, Len(s)))) = <<>>
    THEN <<>>
    ELSE <<[c |-> "Default",
            v |-> DefaultValue(SplitWhitespace(SubSeq(s, idx + 7, Len(s))))]>>

\* parse_column_constraints: the constraints pushed, in the order of the ifs.
ConstraintsOf(s, s_upper) ==
    (IF Contains(s_upper, Lit("PRIMARY KEY"))
            \/ Contains(s_upper, Lit("PRIMARYKEY"))
     THEN <<Constraint("PrimaryKey")>> ELSE <<>>)
    \o (IF Contains(s_upper, Lit("NOT NULL")) THEN <<Constraint("NotNull")>>
        ELSE IF Contains(s_upper, Lit("NULL")) THEN <<Constraint("Null")>>
        ELSE <<>>)
    \o (IF Contains(s_upper, Lit("UNIQUE"))
        THEN <<Constraint("Unique")>> ELSE <<>>)
    \o (IF Contains(s_upper, Lit("AUTO_INCREMENT"))
            \/ Contains(s_upper, Lit("AUTOINCREMENT"))
        THEN <<Constraint("AutoIncrement")>> ELSE <<>>)
    \o DefaultConstraint(s, Find(s_upper, Lit("DEFAULT")))

parse_column_constraints(s, column) ==
    [column EXCEPT !.constraints = @ \o ConstraintsOf(s, ToUppercase(s))]

\* parse_column_definition: the index of the last part of the type text.
\* A type whose first part holds a `(` takes the following parts up to the
\* first one that holds a `)`, or all of them.
TypeEnd(parts) ==
    IF "(" \in {parts[2][k] : k \in 1..Len(parts[2])}
    THEN CHOOSE j \in 2..Len(parts) :
            /\ \A m \in 2..(j - 1) :
                    ")" \notin {parts[m][k] : k \in 1..Len(parts[m])}
            /\ \/ j = Len(parts)
               \/ ")" \in {parts[j][k] : k \in 1..Len(parts[j])}
    ELSE 2

\* parse_column_definition: `Column::new(column_name, sql_type)` and
\* `parse_column_constraints(remaining, &mut column)`.
ColumnOf(column_name, sql_type, remaining) ==
    IF sql_type.t = "Panic" THEN SqlPanic("byte index out of range")
    ELSE SqlOk(parse_column_constraints(remaining,
                                        NewColumn(column_name, sql_type)))

\* parse_column_definition, on the parts of the definition.  `remaining` is
\* `parts[2..].join(" ").to_uppercase()`: every part after the second.
ColumnOfParts(parts) ==
    IF parts = <<>> THEN SqlError("Empty column definition")
    ELSE IF Len(parts) < 2 THEN SqlError("Missing type for column")
    ELSE ColumnOf(TrimMatches(TrimMatches(parts[1], "\""), BackQuote),
                  SqlTypeFromStr(JoinSpace(parts, 2, TypeEnd(parts))),
                  ToUppercase(JoinSpace(parts, 3, Len(parts))))

parse_column_definition(def) == ColumnOfParts(SplitWhitespace(Trim(def)))

\* extract_constraint_columns
ConstraintColumns(content) ==
    [k \in 1..Len(split_by_comma(content)) |->
        TrimMatches(TrimMatches(Trim(split_by_comma(content)[k]), "\""), BackQuote)]

ExtractConstraintColumnsOf(s) ==
    IF ~StartsWith(s, <<"(">>)
    THEN SqlError("Expected column list in parentheses")
    ELSE Try(extract_parentheses_content(s),
             LAMBDA r : SqlOk(ConstraintColumns(r.val.content)))

extract_constraint_columns(s) == ExtractConstraintColumnsOf(Trim(s))

\* What one definition of a table body contributes: nothing, a column, a
\* table constraint, or the error that ends parse_table_definitions.
Item(kind, val) == [ok |-> TRUE, kind |-> kind, val |-> val]

ItemOf(kind, variant, r) ==
    IF r.ok THEN Item(kind, [c |-> variant, v |-> r.val]) ELSE r

ColumnItem(r) == IF r.ok THEN Item("column", r.val) ELSE r

\* parse_table_definitions: the body of `for def in definitions`.
DefinitionOf(def, def_upper) ==
    IF def = <<>> THEN Item("skip", <<>>)
    ELSE IF StartsWith(def_upper, Lit("PRIMARY KEY"))
    THEN ItemOf("constraint", "PrimaryKey",
                extract_constraint_columns(SubSeq(def, 12, Len(def))))
    ELSE IF StartsWith(def_upper, Lit("UNIQUE"))
    THEN ItemOf("constraint", "Unique",
                extract_constraint_columns(SubSeq(def, 7, Len(def))))
    ELSE IF StartsWith(def_upper, Lit("FOREIGN KEY")) THEN Item("skip", <<>>)
    ELSE IF StartsWith(def_upper, Lit("CONSTRAINT")) THEN Item("skip", <<>>)
    ELSE IF StartsWith(def_upper, Lit("CHECK"))
    THEN Item("constraint", [c |-> "Check", v |-> Trim(SubSeq(def, 6, Len(def)))])
    ELSE ColumnItem(parse_column_definition(def))

Definition(def) == DefinitionOf(Trim(def), ToUppercase(Trim(def)))

IsColumn(item) == item.kind = "column"

IsConstraint(item) == item.kind = "constraint"

Vals(items) == [k \in 1..Len(items) |-> items[k].val]

\* The first failure of a sequence of results: the `?` that leaves the loop.
FirstFailure(items) ==
    items[CHOOSE k \in 1..Len(items) :
            ~items[k].ok /\ \A m \in 1..(k - 1) : items[m].ok]

\* parse_table_definitions: the loop, which ends at the first error.
TableDefinitionsOf(items) ==
    IF \E k \in 1..Len(items) : ~items[k].ok THEN FirstFailure(items)
    ELSE SqlOk([columns |-> Vals(SelectSeq(items, IsColumn)),
                table_constraints |-> Vals(SelectSeq(items, IsConstraint))])

Definitions(definitions) ==
    [k \in 1..Len(definitions) |-> Definition(definitions[k])]

parse_table_definitions(s) ==
    TableDefinitionsOf(Definitions(split_by_comma(s)))

\* parse_create_table, after the prefix and `IF NOT EXISTS`.
CreateTableOf(rest) ==
    Try(extract_table_name(rest), LAMBDA name :
    Try(extract_parentheses_content(name.val.rest), LAMBDA body :
    Try(parse_table_definitions(body.val.content), LAMBDA defs :
        SqlOk(NewTable(name.val.table_name, defs.val.columns,
                       defs.val.table_constraints)))))

\* parse_create_table: "Handle IF NOT EXISTS"
SkipIfNotExists(rest) ==
    IF StartsWith(ToUppercase(rest), Lit("IF NOT EXISTS"))
    THEN Trim(SubSeq(rest, 14, Len(rest)))
    ELSE rest

\* parse_create_table
parse_create_table(stmt) ==
    IF Find(ToUppercase(stmt), Lit("CREATE TABLE")) = 0
    THEN SqlError("Invalid CREATE TABLE statement")
    ELSE CreateTableOf(SkipIfNotExists(Trim(
            SubSeq(stmt, Find(ToUppercase(stmt), Lit("CREATE TABLE")) + 12,
                   Len(stmt)))))

TableItem(r) == IF r.ok THEN Item("table", r.val) ELSE r

\* parse_sql_ddl: the body of `for stmt in statements`.
StatementOf(stmt) ==
    IF stmt = <<>> THEN Item("skip", <<>>)
    ELSE IF StartsWith(ToUppercase(stmt), Lit("CREATE TABLE"))
    THEN TableItem(parse_create_table(stmt))
    ELSE Item("skip", <<>>)

Statements(statements) ==
    [k \in 1..Len(statements) |-> StatementOf(Trim(statements[k]))]

IsTable(item) == item.kind = "table"

\* SqlSchema::add_table for each table in turn: `tables.insert` replaces a
\* table of the same name, so the last one of a name stays.
AddTables(tables) ==
    [name \in {tables[k].name : k \in 1..Len(tables)} |->
        tables[CHOOSE k \in 1..Len(tables) :
                /\ tables[k].name = name
                /\ \A m \in (k + 1)..Len(tables) : tables[m].name # name]]

SchemaOf(items) ==
    IF \E k \in 1..Len(items) : ~items[k].ok THEN FirstFailure(items)
    ELSE SqlOk([tables |-> AddTables(Vals(SelectSeq(items, IsTable)))])

\* parse_sql_ddl, after split_statements
ParseStatements(statements) == SchemaOf(Statements(statements))

parse_sql_ddl(sql) == ParseStatements(split_statements(sql))

(***************************************************************************)
(* SQL provider: schema to IR (lib.rs).  A TypeExpr::Named is its string.  *)
(***************************************************************************)
\* SqlProvider::sql_type_to_type_expr
RECURSIVE sql_type_to_type_expr(_)
sql_type_to_type_expr(sql_type) ==
    LET t == sql_type.t
    IN  CASE t \in {"TinyInt", "SmallInt", "Int", "Serial"} -> "int"
          [] t \in {"BigInt", "BigSerial"} -> "int"
          [] t \in {"Real", "Float"} -> "float"
          [] t = "Double" -> "float"
          [] t \in {"Decimal", "Numeric"} -> "float"
          [] t \in {"Char", "VarChar", "Text"} -> "string"
          [] t = "Boolean" -> "bool"
          [] t \in {"Date", "Time", "Timestamp", "TimestampTz"} -> "string"
          [] t \in {"Blob", "Bytea"} -> "bytes"
          [] t \in {"Json", "JsonB"} -> "string"
          [] t = "Uuid" -> "string"
          [] t = "Array" ->
                sql_type_to_type_expr(sql_type.element_type) \o " list"
          [] t = "Custom" -> Str(sql_type.name)

\* table_to_typedef: "Wrap in option if nullable and not primary key"
FinalType(column, type_expr) ==
    IF is_nullable(column) /\ ~is_primary_key(column)
    THEN type_expr \o " option"
    ELSE type_expr

\* SqlProvider::table_to_typedef
table_to_typedef(table) ==
    [kind |-> "Record",
     name |-> NamingApply(Str(table.name)),
     fields |-> [k \in 1..Len(table.columns) |->
                    <<Str(table.columns[k].name),
                      FinalType(table.columns[k],
                                sql_type_to_type_expr(
                                    table.columns[k].sql_type))>>]]

\* The orders in which `for (_table_name, table) in &schema.tables` can
\* visit a HashMap: every arrangement of its keys.
Orders(keys) ==
    {order \in [1..Cardinality(keys) -> keys] :
        \A a, b \in 1..Cardinality(keys) : order[a] = order[b] => a = b}

\* SqlProvider::generate_from_schema, visiting the tables in the given order
generate_from_schema(schema, namespace, order) ==
    [root_types |-> <<>>,
     modules |-> IF order # <<>>
                 THEN <<[path |-> <<namespace>>,
                         types |-> [k \in 1..Len(order) |->
                                      table_to_typedef(schema.tables[order[k]])]]>>
                 ELSE <<>>]

(***************************************************************************)
(* SQL provider: the DDL texts of the model.  Table "items" has the single *)
(* column c, of every type with every list of up to two different          *)
(* constraint clauses; table "users" has up to MaxCols columns c1, c2,     *)
(* ..., each one of a few usual shapes; a script has up to MaxStmts        *)
(* statements, CREATE TABLE and others; and table "items" has up to        *)
(* MaxCols columns with chosen names.                                      *)
(***************************************************************************)
SqlWord(w) ==
    CASE w = "INT" ->
            <<"I", "N", "T">>
      [] w = "VARCHAR(100)" ->
            <<"V", "A", "R", "C", "H", "A", "R", "(", "1", "0", "0", ")">>
      [] w = "DECIMAL(10, 2)" ->
            <<"D", "E", "C", "I", "M", "A", "L", "(", "1", "0", ",", " ", "2", ")">>
      [] w = "ENUM('a', 'NOT NULL')" ->
            <<"E", "N", "U", "M", "(", "'", "a", "'", ",", " ", "'", "N", "O", "T", " ", "N", "U", "L", "L", "'", ")">>
      [] w = "TEXT[]" ->
            <<"T", "E", "X", "T", "[", "]">>
      [] w = "NOT NULL" ->
            <<"N", "O", "T", " ", "N", "U", "L", "L">>
      [] w = "not null" ->
            <<"n", "o", "t", " ", "n", "u", "l", "l">>
      [] w = "PRIMARY KEY" ->
            <<"P", "R", "I", "M", "A", "R", "Y", " ", "K", "E", "Y">>
      [] w = "NULL" ->
            <<"N", "U", "L", "L">>
      [] w = "UNIQUE" ->
            <<"U", "N", "I", "Q", "U", "E">>
      [] w = "DEFAULT 'x'" ->
            <<"D", "E", "F", "A", "U", "L", "T", " ", "'", "x", "'">>
      [] w = "DEFAULT 'NOT NULL'" ->
            <<"D", "E", "F", "A", "U", "L", "T", " ", "'", "N", "O", "T", " ", "N", "U", "L", "L", "'">>
      [] w = "CREATE TABLE " ->
            <<"C", "R", "E", "A", "T", "E", " ", "T", "A", "B", "L", "E", " ">>
      [] w = "items" ->
            <<"i", "t", "e", "m", "s">>
      [] w = "users" ->
            <<"u", "s", "e", "r", "s">>
      [] w = " (" ->
            <<" ", "(">>
      [] w = ", " ->
            <<",", " ">>
      [] w = ")" ->
            <<")">>
      [] w = ";" ->
            <<";">>
      [] w = "VARCHAR(255)[]" ->
            <<"V", "A", "R", "C", "H", "A", "R", "(", "2", "5", "5", ")", "[", "]">>
      [] w = "VARCHAR(255)" ->
            <<"V", "A", "R", "C", "H", "A", "R", "(", "2", "5", "5", ")">>
      [] w = "INT[][]" ->
            <<"I", "N", "T", "[", "]", "[", "]">>
      [] w = "INT[]" ->
            <<"I", "N", "T", "[", "]">>
      [] w = "TEXT" ->
            <<"T", "E", "X", "T">>
      [] w = "id" ->
            <<"i", "d">>
      [] w = "name" ->
            <<"n", "a", "m", "e">>
      [] w = "check_in" ->
            <<"c", "h", "e", "c", "k", "_", "i", "n">>
      [] w = "DEFAULT ')'" ->
            <<"D", "E", "F", "A", "U", "L", "T", " ", "'", ")", "'">>
      [] w = "DEFAULT '('" ->
            <<"D", "E", "F", "A", "U", "L", "T", " ", "'", "(", "'">>
      [] w = "DEFAULT '()'" ->
            <<"D", "E", "F", "A", "U", "L", "T", " ", "'", "(", ")", "'">>
      [] w = "age" ->
            <<"a", "g", "e">>
      [] w = "unique_id" ->
            <<"u", "n", "i", "q", "u", "e", "_", "i", "d">>
      [] w = "constraint_type" ->
            <<"c", "o", "n", "s", "t", "r", "a", "i", "n", "t", "_", "t", "y", "p", "e">>
      [] w = "CREATE INDEX idx ON users (id)" ->
            <<"C", "R", "E", "A", "T", "E", " ", "I", "N", "D", "E", "X", " ", "i", "d", "x", " ", "O", "N", " ", "u", "s", "e", "r", "s", " ", "(", "i", "d", ")">>
      [] w = "CREATE TABLESPACE ts" ->
            <<"C", "R", "E", "A", "T", "E", " ", "T", "A", "B", "L", "E", "S", "P", "A", "C", "E", " ", "t", "s">>
      [] w = "ALTER TABLE users ADD age INT" ->
            <<"A", "L", "T", "E", "R", " ", "T", "A", "B", "L", "E", " ", "u", "s", "e", "r", "s", " ", "A", "D", "D", " ", "a", "g", "e", " ", "I", "N", "T">>
      [] w = "INSERT INTO users VALUES (1)" ->
            <<"I", "N", "S", "E", "R", "T", " ", "I", "N", "T", "O", " ", "u", "s", "e", "r", "s", " ", "V", "A", "L", "U", "E", "S", " ", "(", "1", ")">>
      [] w = "CREATE TABLE items id INT" ->
            <<"C", "R", "E", "A", "T", "E", " ", "T", "A", "B", "L", "E", " ", "i", "t", "e", "m", "s", " ", "i", "d", " ", "I", "N", "T">>
      [] w = "CREATE TABLE items (c( )( ))" ->
            <<"C", "R", "E", "A", "T", "E", " ", "T", "A", "B", "L", "E", " ", "i", "t", "e", "m", "s", " ", "(", "c", "(", " ", ")", "(", " ", ")", ")">>

SqlTypeWords == {"INT", "VARCHAR(100)", "DECIMAL(10, 2)",
                 "ENUM('a', 'NOT NULL')", "TEXT[]", "VARCHAR(255)[]",
                 "INT[][]"}

SqlClauses == {"NOT NULL", "not null", "PRIMARY KEY", "NULL", "UNIQUE",
               "DEFAULT 'x'", "DEFAULT 'NOT NULL'"}

\* The lists of up to two different clauses.
ClauseLists ==
    {<<>>} \cup {<<a>> : a \in SqlClauses}
        \cup {ab \in SqlClauses \X SqlClauses : ab[1] # ab[2]}

ColumnShape(type, clauses) == [type |-> type, clauses |-> clauses]

UsualColumns == {ColumnShape("INT", <<"PRIMARY KEY">>),
                 ColumnShape("VARCHAR(100)", <<"NOT NULL">>),
                 ColumnShape("VARCHAR(100)", <<>>)}

RECURSIVE ClausesText(_)
ClausesText(clauses) ==
    IF clauses = <<>> THEN <<>>
    ELSE <<" ">> \o SqlWord(Head(clauses)) \o ClausesText(Tail(clauses))

\* `name type clause ...`
ColumnText(name, column) ==
    name \o <<" ">> \o SqlWord(column.type) \o ClausesText(column.clauses)

ColumnName(single, n) == IF single THEN <<"c">> ELSE <<"c", DigitChar(n)>>

RECURSIVE ColumnsText(_, _, _)
ColumnsText(columns, single, n) ==
    IF n > Len(columns) THEN <<>>
    ELSE (IF n > 1 THEN SqlWord(", ") ELSE <<>>)
            \o ColumnText(ColumnName(single, n), columns[n])
            \o ColumnsText(columns, single, n + 1)

\* `CREATE TABLE name (columns);`
TableText(name, columns, single) ==
    SqlWord("CREATE TABLE ") \o SqlWord(name) \o SqlWord(" (")
        \o ColumnsText(columns, single, 1) \o SqlWord(")") \o SqlWord(";")

\* What a script says: its statements in order.  A statement is a CREATE
\* TABLE with a table name and named columns, or the text of its kind.
Statement(kind, table, columns) ==
    [kind |-> kind, table |-> table, columns |-> columns]

NamedColumn(name, type, clauses) ==
    [name |-> name, type |-> type, clauses |-> clauses]

RECURSIVE NamedColumnsText(_, _)
NamedColumnsText(columns, n) ==
    IF n > Len(columns) THEN <<>>
    ELSE (IF n > 1 THEN SqlWord(", ") ELSE <<>>)
            \o ColumnText(SqlWord(columns[n].name), columns[n])
            \o NamedColumnsText(columns, n + 1)

\* `CREATE TABLE name (columns)`, or the statement of another kind as it
\* is written.
StatementText(statement) ==
    IF statement.kind = "CREATE TABLE"
    THEN SqlWord("CREATE TABLE ") \o SqlWord(statement.table) \o SqlWord(" (")
            \o NamedColumnsText(statement.columns, 1) \o SqlWord(")")
    ELSE SqlWord(statement.kind)

\* The statements of a script, each one closed by `;` and a space.
RECURSIVE ScriptText(_)
ScriptText(script) ==
    IF script = <<>> THEN <<>>
    ELSE StatementText(Head(script)) \o SqlWord(";") \o <<" ">>
            \o ScriptText(Tail(script))

SqlInput(table, columns, single) ==
    [src |-> [table |-> table, columns |-> columns, single |-> single,
              script |-> <<Statement("CREATE TABLE", table,
                                     [k \in 1..Len(columns) |->
                                        NamedColumn(Str(ColumnName(single, k)),
                                                    columns[k].type,
                                                    columns[k].clauses)])>>],
     sql |-> TableText(table, columns, single)]

ScriptInput(script) ==
    [src |-> [table |-> "", columns |-> <<>>, single |-> FALSE,
              script |-> script],
     sql |-> ScriptText(script)]

\* Statements that are no CREATE TABLE.
OtherStatements == {"CREATE INDEX idx ON users (id)", "CREATE TABLESPACE ts",
                    "ALTER TABLE users ADD age INT",
                    "INSERT INTO users VALUES (1)"}

\* CREATE TABLE statements that are not well formed: one without the
\* parentheses of its body, one whose column type is `)(`.
BrokenStatements == {"CREATE TABLE items id INT",
                     "CREATE TABLE items (c( )( ))"}

StatementPool ==
    {Statement("CREATE TABLE", "users",
               <<NamedColumn("id", "INT", <<"PRIMARY KEY">>),
                 NamedColumn("name", "VARCHAR(100)", <<>>)>>),
     Statement("CREATE TABLE", "items", <<NamedColumn("id", "INT", <<>>)>>)}
    \cup {Statement(kind, "", <<>>) : kind \in OtherStatements \cup BrokenStatements}

\* Column names, some of which begin with a word that also begins a table
\* constraint.
ColumnNames == {"id", "name", "check_in", "constraint_type"}

\* The scripts of up to MaxStmts statements of the pool.
ScriptInputs ==
    {ScriptInput(script) :
        script \in UNION {[1..n -> StatementPool] : n \in 1..MaxStmts}}

\* One table "items" of up to MaxCols INT columns with names of ColumnNames.
NamedInputs ==
    {ScriptInput(<<Statement("CREATE TABLE", "items",
                             [k \in 1..Len(names) |->
                                NamedColumn(names[k], "INT", <<>>)])>>) :
        names \in UNION {[1..n -> ColumnNames] : n \in 1..MaxCols}}

\* Column names of which one more begins with a constraint keyword.
KeywordNames == ColumnNames \cup {"unique_id"}

\* DEFAULT clauses whose quoted value holds parentheses, and one without.
QuotedDefaults == {"DEFAULT ')'", "DEFAULT '('", "DEFAULT '()'", "DEFAULT 'x'"}

\* One table "items": up to MaxCols INT columns with names of KeywordNames,
\* or the column id with a quoted default, then the columns of first.
TableInputs ==
    {ScriptInput(<<Statement("CREATE TABLE", "items",
                             [k \in 1..Len(names) |->
                                NamedColumn(names[k], "INT", <<>>)])>>) :
        names \in UNION {[1..n -> KeywordNames] : n \in 1..MaxCols}}
    \cup
    {ScriptInput(<<Statement("CREATE TABLE", "items",
                             first \o <<NamedColumn("id", "INT", <<default>>)>>
                             \o last)>>) :
        default \in QuotedDefaults,
        first \in {<<>>, <<NamedColumn("name", "INT", <<>>)>>},
        last \in {<<>>, <<NamedColumn("age", "VARCHAR(100)", <<"NOT NULL">>)>>}}

SqlInputs ==
    {SqlInput("items", <<ColumnShape(type, clauses)>>, TRUE) :
        type \in SqlTypeWords, clauses \in ClauseLists}
    \cup {SqlInput("users", columns, FALSE) :
            columns \in UNION {[1..n -> UsualColumns] : n \in 1..MaxCols}}
    \cup ScriptInputs
    \cup NamedInputs

\* The locals of generate_types and of the calls it makes.
SqlStart(input) ==
    [phase |-> "start", src |-> input.src, sql |-> input.sql,
     namespace |-> "Database", statements |-> <<>>, parsed |-> <<>>,
     generated |-> <<>>]

SqlIdle ==
    [phase |-> "idle",
     src |-> [table |-> "", columns |-> <<>>, single |-> FALSE,
              script |-> <<>>],
     sql |-> <<>>, namespace |-> "", statements |-> <<>>, parsed |-> <<>>,
     generated |-> <<>>]

(***************************************************************************)
(* OBI provider: the cross-reference validator (parser.rs).  An ObiType is *)
(* a record tagged by kind, with the field names of its JSON form; the     *)
(* two HashMaps of an ObiSchema are functions from their keys.             *)
(***************************************************************************)
ObiOk == [ok |-> TRUE]

\* ProviderError::ParseError("<Struct|Enum> '<name>' referenced in
\* '<context>' not found in schema")
ObiNotFound(what, name, context) ==
    [ok |-> FALSE,
     err |-> [kind |-> "ParseError", what |-> what, name |-> name,
              context |-> context]]

RECURSIVE validate_type_reference(_, _, _)
\* Mutant: an Option is accepted without looking at its inner type.
validate_type_reference_OptionUnchecked(obi_type, schema, context) ==
    CASE obi_type.kind = "struct" ->
            IF obi_type.name \notin DOMAIN schema.structs
            THEN ObiNotFound("Struct", obi_type.name, context)
            ELSE ObiOk
      [] obi_type.kind = "enum" ->
            IF obi_type.name \notin DOMAIN schema.enums
            THEN ObiNotFound("Enum", obi_type.name, context)
            ELSE ObiOk
      [] obi_type.kind \in {"array", "list"} ->
            validate_type_reference(obi_type.type, schema, context)
      [] obi_type.kind = "option" -> ObiOk
      [] obi_type.kind = "primitive" -> ObiOk

\* validate_type_reference
validate_type_reference(obi_type, schema, context) ==
    CASE obi_type.kind = "struct" ->
            IF obi_type.name \notin DOMAIN schema.structs
            THEN ObiNotFound("Struct", obi_type.name, context)
            ELSE ObiOk
      [] obi_type.kind = "enum" ->
            IF obi_type.name \notin DOMAIN schema.enums
            THEN ObiNotFound("Enum", obi_type.name, context)
            ELSE ObiOk
      [] obi_type.kind \in {"array", "list"} ->
            validate_type_reference(obi_type.type, schema, context)
      [] obi_type.kind = "option" ->
            validate_type_reference(obi_type.type, schema, context)
      [] obi_type.kind = "primitive" -> ObiOk

\* validate_schema: `for field in &obi_struct.fields`, left by the `?` at
\* the first field that fails.
FieldResults(obi_struct, schema, struct_name) ==
    [k \in 1..Len(obi_struct.fields) |->
        validate_type_reference(obi_struct.fields[k].field_type, schema,
                                struct_name)]

ValidateFieldsOf(results) ==
    IF \E k \in 1..Len(results) : ~results[k].ok THEN FirstFailure(results)
    ELSE ObiOk

ValidateFields(schema, struct_name) ==
    ValidateFieldsOf(FieldResults(schema.structs[struct_name], schema,
                                  struct_name))

(***************************************************************************)
(* OBI provider: the schemas of the model.  Struct "Event" has up to       *)
(* MaxObiFields fields of a type wrapped at most once, or one field of a   *)
(* type wrapped up to MaxWrap times; a second struct "Data", with a sound  *)
(* or a dangling field, and the enum "Kind" are there or not.              *)
(***************************************************************************)
ObiLeafTypes ==
    {[kind |-> "primitive", type |-> "u32"],
     [kind |-> "struct", name |-> "Event"],
     [kind |-> "struct", name |-> "Data"],
     [kind |-> "enum", name |-> "Kind"],
     [kind |-> "enum", name |-> "Data"]}

ObiWrap(types) ==
    {[kind |-> "array", type |-> t, size |-> 4] : t \in types}
        \cup {[kind |-> "list", type |-> t] : t \in types}
        \cup {[kind |-> "option", type |-> t] : t \in types}

\* The types wrapped at most n times.
RECURSIVE ObiTypes(_)
ObiTypes(n) ==
    IF n = 0 THEN ObiLeafTypes
    ELSE ObiLeafTypes \cup ObiWrap(ObiTypes(n - 1))

ObiFieldName(k) == "f" \o DigitChar(k)

ObiFields(types) ==
    [k \in 1..Len(types) |-> [name |-> ObiFieldName(k), field_type |-> types[k]]]

ObiStruct(name, types) == [name |-> name, fields |-> ObiFields(types)]

ObiFieldLists ==
    UNION {[1..n -> ObiTypes(1)] : n \in 1..MaxObiFields}
        \cup {<<t>> : t \in ObiTypes(MaxWrap)}

\* What struct "Data" is: absent, or one field, primitive or an enum "Kind".
DataChoices == {"none", "primitive", "kind"}

ObiStructs(types, data) ==
    IF data = "none" THEN [name \in {"Event"} |-> ObiStruct("Event", types)]
    ELSE [name \in {"Event", "Data"} |->
            IF name = "Event" THEN ObiStruct("Event", types)
            ELSE ObiStruct("Data",
                           IF data = "primitive"
                           THEN <<[kind |-> "primitive", type |-> "u32"]>>
                           ELSE <<[kind |-> "enum", name |-> "Kind"]>>)]

ObiEnums(kind) ==
    [name \in IF kind THEN {"Kind"} ELSE {} |->
        [name |-> name, variants |-> <<[name |-> "A", value |-> 0]>>]]

\* The mode of a schema: "embedded" for built-in types, "custom" for
\* user-defined ones.
ObiModes == {"embedded", "custom"}

ObiSchemas ==
    {[structs |-> ObiStructs(types, data), enums |-> ObiEnums(kind),
      mode |-> mode] :
        types \in ObiFieldLists, data \in DataChoices, kind \in BOOLEAN,
        mode \in ObiModes}

(***************************************************************************)
(* OBI provider: schema to IR (lib.rs).  A TypeExpr::Named is its string.  *)
(***************************************************************************)
\* ObiProvider::primitive_to_fusabi_type
primitive_to_fusabi_type(prim_type) ==
    CASE prim_type \in {"u8", "u16", "u32", "u64", "i8", "i16", "i32", "i64"}
            -> "int"
      [] prim_type = "bool" -> "bool"
      [] prim_type \in {"string", "ipv4_addr", "ipv6_addr"} -> "string"
      [] prim_type \in {"pid", "timestamp"} -> "int"

\* ObiProvider::obi_type_to_type_expr
RECURSIVE obi_type_to_type_expr(_)
obi_type_to_type_expr(obi_type) ==
    CASE obi_type.kind = "primitive" -> primitive_to_fusabi_type(obi_type.type)
      [] obi_type.kind \in {"array", "list"} ->
            obi_type_to_type_expr(obi_type.type) \o " list"
      [] obi_type.kind \in {"struct", "enum"} -> NamingApply(obi_type.name)
      [] obi_type.kind = "option" ->
            obi_type_to_type_expr(obi_type.type) \o " option"

\* ObiProvider::struct_to_typedef
struct_to_typedef(obi_struct) ==
    [kind |-> "Record",
     name |-> NamingApply(obi_struct.name),
     fields |-> [k \in 1..Len(obi_struct.fields) |->
                    <<obi_struct.fields[k].name,
                      obi_type_to_type_expr(obi_struct.fields[k].field_type)>>]]

\* ObiProvider::enum_to_typedef
obi_enum_to_typedef(obi_enum) ==
    [kind |-> "Du",
     name |-> NamingApply(obi_enum.name),
     variants |-> [k \in 1..Len(obi_enum.variants) |->
                    NamingApply(obi_enum.variants[k].name)]]

\* ObiProvider::generate_from_schema after validation, visiting the enums
\* and the structs in the given orders: the enums first, then the structs,
\* which in embedded mode are root types as well.
obi_generate_from_schema(schema, namespace, enum_order, struct_order) ==
    LET enum_defs == [k \in 1..Len(enum_order) |->
                        obi_enum_to_typedef(schema.enums[enum_order[k]])]
        struct_defs == [k \in 1..Len(struct_order) |->
                          struct_to_typedef(schema.structs[struct_order[k]])]
    IN  [root_types |-> IF schema.mode = "embedded" THEN struct_defs ELSE <<>>,
         modules |-> IF enum_defs \o struct_defs # <<>>
                     THEN <<[path |-> <<namespace>>,
                             types |-> enum_defs \o struct_defs]>>
                     ELSE <<>>]

\* The locals of generate_from_schema and of validate_schema: the keys of
\* schema.structs the outer loop of the validation has visited, its result
\* once it has returned, and the IR.
ObiStart(schema) ==
    [phase |-> "validating", schema |-> schema, namespace |-> "Events",
     visited |-> {}, result |-> ObiOk, generated |-> <<>>]

ObiIdle ==
    [phase |-> "idle",
     schema |-> [structs |-> <<>>, enums |-> <<>>, mode |-> ""],
     namespace |-> "", visited |-> {}, result |-> ObiOk, generated |-> <<>>]

(***************************************************************************)
(* SQL provider: a run of one of the two scanners on its own.              *)
(***************************************************************************)
SplitInit ==
    /\ \E fn \in {"split_statements", "split_by_comma"} :
        \E text \in SeqsUpTo(SqlChars, MaxSqlLen) :
            sc = ScanStart(fn, text)
    /\ pb = ProtoIdle
    /\ sq = SqlIdle
    /\ ob = ObiIdle

SplitStatementsStep ==
    /\ sc.fn = "split_statements" /\ ~sc.done /\ sc.i <= Len(sc.text)
    /\ sc' = [SplitStatementsChar(sc, sc.text[sc.i]) EXCEPT !.i = sc.i + 1]
    /\ UNCHANGED <<pb, sq, ob>>

SplitStatementsFinish ==
    /\ sc.fn = "split_statements" /\ ~sc.done /\ sc.i > Len(sc.text)
    /\ sc' = SplitStatementsEnd(sc)
    /\ UNCHANGED <<pb, sq, ob>>

SplitByCommaStep ==
    /\ sc.fn = "split_by_comma" /\ ~sc.done /\ sc.i <= Len(sc.text)
    /\ sc' = [SplitByCommaChar(sc, sc.text[sc.i]) EXCEPT !.i = sc.i + 1]
    /\ UNCHANGED <<pb, sq, ob>>

SplitByCommaFinish ==
    /\ sc.fn = "split_by_comma" /\ ~sc.done /\ sc.i > Len(sc.text)
    /\ sc' = SplitByCommaEnd(sc)
    /\ UNCHANGED <<pb, sq, ob>>

SplitNext ==
    \/ SplitStatementsStep
    \/ SplitStatementsFinish
    \/ SplitByCommaStep
    \/ SplitByCommaFinish

SpecSplit == SplitInit /\ [][SplitNext]_vars

(***************************************************************************)
(* Protobuf provider: the generate_types run.                              *)
(***************************************************************************)
ProtoInit ==
    /\ \E input \in ProtoInputs : pb = ProtoStart(input)
    /\ sc = ScanIdle
    /\ sq = SqlIdle
    /\ ob = ObiIdle

\* generate_types: `self.parse_proto(proto_content)`, which first builds
\* the parser: Parser::new tokenizes the whole text.
ParserNew ==
    /\ pb.phase = "start"
    /\ pb' = [pb EXCEPT !.phase = "tokenized", !.tokens = tokenize(pb.content)]
    /\ UNCHANGED <<sc, sq, ob>>

\* parse_proto: `parser.parse_file()`, and the `?` of generate_types.
ParserParseFile ==
    /\ pb.phase = "tokenized"
    /\ LET r == ParseFile(pb.tokens)
       IN  pb' = [pb EXCEPT !.phase = IF r.ok THEN "parsed" ELSE "failed",
                            !.parsed = r]
    /\ UNCHANGED <<sc, sq, ob>>

\* generate_types: `self.generate_from_proto(&proto, namespace)`
GenerateTypesGenerate ==
    /\ pb.phase = "parsed"
    /\ pb' = [pb EXCEPT !.phase = "done",
                        !.generated =
                            generate_from_proto(pb.parsed.val, pb.namespace)]
    /\ UNCHANGED <<sc, sq, ob>>

ProtoNext == ParserNew \/ ParserParseFile \/ GenerateTypesGenerate

SpecProto == ProtoInit /\ [][ProtoNext]_vars

(***************************************************************************)
(* Protobuf provider: parse_file step by step.  pb.parser holds the cursor *)
(* and the calls in progress of the Parser that Parser::new built.         *)
(***************************************************************************)
ParserInit ==
    /\ \E input \in ProtoInputs :
          pb = [ProtoStart(input) EXCEPT
                    !.phase = "parsing",
                    !.tokens = tokenize(input.content),
                    !.parser = ParserStart(tokenize(input.content))]
    /\ sc = ScanIdle
    /\ sq = SqlIdle
    /\ ob = ObiIdle

\* One iteration of the loop of the innermost call, after which the parser
\* is still running.
ParserIterate ==
    /\ pb.phase = "parsing"
    /\ ~ParserStep(pb.parser).done
    /\ pb' = [pb EXCEPT !.parser = ParserStep(pb.parser)]
    /\ UNCHANGED <<sc, sq, ob>>

\* The step that ends parse_file: its return at Eof, or an Err.
ParserReturn ==
    /\ pb.phase = "parsing"
    /\ ParserStep(pb.parser).done
    /\ pb' = [pb EXCEPT
                !.parser = ParserStep(pb.parser),
                !.phase = IF ParserStep(pb.parser).result.ok THEN "parsed"
                          ELSE "failed",
                !.parsed = ParserStep(pb.parser).result]
    /\ UNCHANGED <<sc, sq, ob>>

ParserNext == ParserIterate \/ ParserReturn

SpecParser == ParserInit /\ [][ParserNext]_vars

(***************************************************************************)
(* SQL provider: the generate_types run.                                   *)
(***************************************************************************)
SqlInit ==
    /\ \E input \in SqlInputs : sq = SqlStart(input)
    /\ pb = ProtoIdle
    /\ sc = ScanIdle
    /\ ob = ObiIdle

\* parse_sql_ddl: `let statements = split_statements(sql)`
SqlSplitStatements ==
    /\ sq.phase = "start"
    /\ sq' = [sq EXCEPT !.phase = "split",
                        !.statements = split_statements(sq.sql)]
    /\ UNCHANGED <<pb, sc, ob>>

\* What becomes of the call: it goes on, it returns the Err, or it panics and
\* returns nothing.
SqlPhaseAfter(r) ==
    IF r.ok THEN "parsed"
    ELSE IF r.err.kind = "panic" THEN "panicked"
    ELSE "failed"

\* parse_sql_ddl: the loop over the statements, and the `?` of
\* generate_types.
SqlParseStatements ==
    /\ sq.phase = "split"
    /\ LET r == ParseStatements(sq.statements)
       IN  sq' = [sq EXCEPT !.phase = SqlPhaseAfter(r), !.parsed = r]
    /\ UNCHANGED <<pb, sc, ob>>

\* generate_types: `self.generate_from_schema(&parsed, namespace)`
SqlGenerateFromSchema ==
    /\ sq.phase = "parsed"
    /\ \E order \in Orders(DOMAIN sq.parsed.val.tables) :
        sq' = [sq EXCEPT !.phase = "done",
                         !.generated =
                            generate_from_schema(sq.parsed.val, sq.namespace,
                                                 order)]
    /\ UNCHANGED <<pb, sc, ob>>

SqlNext == SqlSplitStatements \/ SqlParseStatements \/ SqlGenerateFromSchema

SpecSql == SqlInit /\ [][SqlNext]_vars

\* The same run on the scripts of one table.
TableInit ==
    /\ \E input \in TableInputs : sq = SqlStart(input)
    /\ pb = ProtoIdle
    /\ sc = ScanIdle
    /\ ob = ObiIdle

SpecTable == TableInit /\ [][SqlNext]_vars

(***************************************************************************)
(* OBI provider: the generate_from_schema run, validate_schema first.  The *)
(* outer loop of the validation visits the keys of the HashMap             *)
(* schema.structs in an order the code does not choose.                    *)
(***************************************************************************)
ObiInit ==
    /\ \E schema \in ObiSchemas : ob = ObiStart(schema)
    /\ pb = ProtoIdle
    /\ sc = ScanIdle
    /\ sq = SqlIdle

\* One iteration of `for (struct_name, obi_struct) in &schema.structs`.
ObiValidateStruct ==
    /\ ob.phase = "validating"
    /\ \E struct_name \in DOMAIN ob.schema.structs \ ob.visited :
        LET r == ValidateFields(ob.schema, struct_name)
        IN  ob' = IF r.ok
                  THEN [ob EXCEPT !.visited = @ \cup {struct_name}]
                  ELSE [ob EXCEPT !.phase = "failed", !.result = r]
    /\ UNCHANGED <<pb, sc, sq>>

\* After the loop: `Ok(())`
ObiValidateOk ==
    /\ ob.phase = "validating"
    /\ ob.visited = DOMAIN ob.schema.structs
    /\ ob' = [ob EXCEPT !.phase = "ok", !.result = ObiOk]
    /\ UNCHANGED <<pb, sc, sq>>

\* generate_from_schema after `parser::validate_schema(schema)?`: the two
\* loops, each over a HashMap in an order the code does not choose.
ObiGenerateFromSchema ==
    /\ ob.phase = "ok"
    /\ \E enum_order \in Orders(DOMAIN ob.schema.enums) :
        \E struct_order \in Orders(DOMAIN ob.schema.structs) :
            ob' = [ob EXCEPT !.phase = "done",
                             !.generated =
                                obi_generate_from_schema(ob.schema, ob.namespace,
                                                         enum_order,
                                                         struct_order)]
    /\ UNCHANGED <<pb, sc, sq>>

ObiNext == ObiValidateStruct \/ ObiValidateOk \/ ObiGenerateFromSchema

SpecObi == ObiInit /\ [][ObiNext]_vars

(***************************************************************************)
(* Protobuf provider: what a finished run produced.                        *)
(***************************************************************************)
ProtoDone == pb.phase = "done"

\* The declaration list of the one emitted module (empty without a module).
Types ==
    IF pb.generated.modules = <<>> THEN <<>>
    ELSE pb.generated.modules[1].types

\* The type a field's own type name maps to, before any label applies.
Mapped(type) ==
    BaseType(FieldTypeFromStr(type), build_message_map(pb.parsed.val),
             build_enum_map(pb.parsed.val))

IsDecl(decl, kind, name) == decl.kind = kind /\ decl.name = name

\* C1: for the end-to-end example text, generate_types yields exactly one
\* module, in which a union "Status" with 2 variants is emitted before a
\* record "User" whose fields are, in order, id: string, status: Status
\* (unwrapped), tags: string list.
C1_EndToEndExample ==
    (ProtoDone /\ pb.src.family = "example") =>
        /\ Len(pb.generated.modules) = 1
        /\ \E i, j \in 1..Len(Types) :
            /\ i < j
            /\ IsDecl(Types[i], "Du", "Status")
            /\ Len(Types[i].variants) = 2
            /\ IsDecl(Types[j], "Record", "User")
            /\ Types[j].fields = <<<<"id", "string">>,
                                   <<"status", "Status">>,
                                   <<"tags", "string list">>>>

\* C2: every message field written without a label keyword becomes a record
\* field of the same name whose type is the plain mapped type, wrapped
\* neither in "option" nor in "list".
C2_UnlabelledFieldIsPlain ==
    (ProtoDone /\ pb.src.family = "fields") =>
        \A k \in 1..Len(pb.src.fields) :
            pb.src.fields[k].label = "" =>
                Types[1].fields[k]
                    = <<FieldName(k), Mapped(pb.src.fields[k].type)>>

\* The type expression an explicitly labelled field of mapped type T' gets.
LabelledShape(label, mapped) ==
    CASE label = "required" -> mapped
      [] label = "optional" -> mapped \o " option"
      [] label = "repeated" -> mapped \o " list"

\* C3: a field with an explicit label and a non-map type T mapped to T' has
\* the type T' when required, exactly "T' option" when optional and exactly
\* "T' list" when repeated (never "list option"): one shape per field.
C3_ExplicitLabelShapes ==
    (ProtoDone /\ pb.src.family = "fields") =>
        \A k \in 1..Len(pb.src.fields) :
            pb.src.fields[k].label \in {"required", "optional", "repeated"} =>
                Types[1].fields[k]
                    = <<FieldName(k),
                        LabelledShape(pb.src.fields[k].label,
                                      Mapped(pb.src.fields[k].type))>>

C3_Witness ==
    /\ ProtoDone
    /\ pb.src.family = "fields"
    /\ Len(pb.src.fields) = 2
    /\ pb.src.fields[1] = [label |-> "repeated", type |-> "Status"]
    /\ pb.src.fields[2] = [label |-> "optional", type |-> "int32"]
    /\ Types[1].fields = <<<<"f1", "Status list">>, <<"f2", "int option">>>>

\* C4: a map<K,V> field has as its type the single map expression built
\* from the unwrapped mapped key and value types, and that expression is
\* not itself wrapped in "list" or "option".
C4_MapFieldNotWrapped ==
    (ProtoDone /\ pb.src.family = "fields") =>
        \A k \in 1..Len(pb.src.fields) :
            pb.src.fields[k].label = "map" =>
                Types[1].fields[k][2]
                    = "Map<" \o Mapped(pb.src.fields[k].type) \o ", "
                      \o Mapped(pb.src.fields[k].value) \o ">"

\* The declarations the claimed order gives a forest of messages whose first
\* message is the number-th of the text: per message its nested enums, then
\* the declarations of its nested messages, then its own record.
RECURSIVE DeclOrder(_, _)
DeclOrder(forest, number) ==
    IF forest = <<>> THEN <<>>
    ELSE LET node == Head(forest)
         IN  (IF node.has_enum THEN <<<<"Du", "E">>>> ELSE <<>>)
             \o DeclOrder(node.nested, number + 1)
             \o <<<<"Record", MsgName(number)>>>>
             \o DeclOrder(Tail(forest), number + 1 + ForestSize(node.nested))

\* The pairs <<enclosing, nested>> of message numbers of a forest.
RECURSIVE Enclosures(_, _)
Enclosures(forest, number) ==
    IF forest = <<>> THEN {}
    ELSE LET node == Head(forest)
             inner == ForestSize(node.nested)
         IN  {<<number, m>> : m \in (number + 1)..(number + inner)}
             \cup Enclosures(node.nested, number + 1)
             \cup Enclosures(Tail(forest), number + 1 + inner)

\* Where the record of the number-th message stands in the declaration list.
RecordIndex(number) ==
    {i \in 1..Len(Types) : IsDecl(Types[i], "Record", MsgName(number))}

\* C5: for every message at any depth the declaration list holds first the
\* message's nested enums, then depth-first the declarations of its nested
\* messages, then the message's own record; so the record of a nested
\* message stands strictly before the record of its enclosing message.
C5_NestedDeclarationOrder ==
    (ProtoDone /\ pb.src.family = "nest") =>
        /\ [i \in 1..Len(Types) |-> <<Types[i].kind, Types[i].name>>]
                = DeclOrder(pb.src.forest, 1)
        /\ \A pair \in Enclosures(pb.src.forest, 1) :
            \A i \in RecordIndex(pair[1]), j \in RecordIndex(pair[2]) : j < i

C5_Witness ==
    /\ ProtoDone
    /\ pb.src.family = "nest"
    /\ Len(pb.src.forest) = 1
    /\ pb.src.forest[1].has_enum
    /\ Len(pb.src.forest[1].nested) = 2
    /\ [i \in 1..Len(Types) |-> Types[i].name] = <<"E", "B", "C", "A">>

\* The messages of a forest as <<number, ref>>, ref being what the field `r`
\* of the message refers to ("" without the field).
RECURSIVE Refs(_, _)
Refs(forest, number) ==
    IF forest = <<>> THEN {}
    ELSE LET node == Head(forest)
         IN  {<<number, node.ref>>}
             \cup Refs(node.nested, number + 1)
             \cup Refs(Tail(forest), number + 1 + ForestSize(node.nested))

\* The names of the messages and enums defined anywhere in the file.
LocalNames ==
    build_message_map(pb.parsed.val) \cup build_enum_map(pb.parsed.val)

\* C6: no record holds a forward local reference: when a field's type names
\* a message or enum defined in the same file (other than the record
\* itself), that declaration stands earlier in the list than the record.
C6_NoForwardLocalReference ==
    (ProtoDone /\ pb.src.family = "nest") =>
        \A m \in Refs(pb.src.forest, 1) :
            (m[2] \in LocalNames /\ m[2] # MsgName(m[1])) =>
                \A i \in RecordIndex(m[1]) :
                    \E j \in 1..(i - 1) : Types[j].name = m[2]

(***************************************************************************)
(* What "top level" means, stated on the text alone: the quote that is     *)
(* open and the parenthesis depth after the first i characters.            *)
(***************************************************************************)
RECURSIVE QuoteAt(_, _)
QuoteAt(t, i) ==
    IF i = 0 THEN ""
    ELSE LET q == QuoteAt(t, i - 1)
         IN  IF t[i] \in {"'", "\""}
             THEN (IF q = "" THEN t[i] ELSE IF q = t[i] THEN "" ELSE q)
             ELSE q

DepthAt(t, i) ==
    Cardinality({j \in 1..i : t[j] = "(" /\ QuoteAt(t, j - 1) = ""})
    - Cardinality({j \in 1..i : t[j] = ")" /\ QuoteAt(t, j - 1) = ""})

TopLevelAt(t, i) == QuoteAt(t, i - 1) = "" /\ DepthAt(t, i - 1) = 0

\* The pieces of t between the top-level occurrences of sep, uncut and
\* untrimmed, the piece after the last separator included.
RECURSIVE PiecesFrom(_, _, _, _)
PiecesFrom(t, sep, from, i) ==
    IF i > Len(t) THEN <<SubSeq(t, from, Len(t))>>
    ELSE IF t[i] = sep /\ TopLevelAt(t, i)
         THEN <<SubSeq(t, from, i - 1)>> \o PiecesFrom(t, sep, i + 1, i + 1)
         ELSE PiecesFrom(t, sep, from, i + 1)

TopLevelPieces(t, sep) == PiecesFrom(t, sep, 1, 1)

TrimAll(ps) == [k \in 1..Len(ps) |-> Trim(ps[k])]

NonEmpty(p) == p # <<>>

StatementsDone == sc.fn = "split_statements" /\ sc.done

\* C7: split_statements returns, in source order, exactly the trimmed
\* non-empty pieces between top-level `;`: "A;B;" gives [A, B], no statement
\* is empty or whitespace-only, and a non-empty unterminated tail is the
\* last statement.
C7_SplitStatementsPieces ==
    StatementsDone =>
        /\ sc.out = SelectSeq(TrimAll(TopLevelPieces(sc.text, ";")), NonEmpty)
        /\ \A k \in 1..Len(sc.out) : Trim(sc.out[k]) # <<>>
        /\ sc.text = <<"a", ";", "a", ";">> => sc.out = << <<"a">>, <<"a">> >>
        /\ LET ps == TopLevelPieces(sc.text, ";")
           IN  Trim(ps[Len(ps)]) # <<>> =>
                  /\ sc.out # <<>>
                  /\ sc.out[Len(sc.out)] = Trim(ps[Len(ps)])

C7_Witness ==
    /\ StatementsDone
    /\ sc.text = <<"a", ";", " ", "a">>
    /\ sc.out = << <<"a">>, <<"a">> >>

Separator(fn) == IF fn = "split_statements" THEN ";" ELSE ","

\* C8: in both scanners a separator character splits iff at that character
\* the parenthesis depth is 0 and no string is open (a string is closed only
\* by the quote that opened it); any other character, and a separator inside
\* parentheses or a string, is appended to the current piece.
C8_SeparatorStep ==
    (~sc.done /\ sc.i <= Len(sc.text) /\ sc'.i = sc.i + 1) =>
        LET ch == sc.text[sc.i]
            splits == /\ sc'.current = <<>>
                      /\ sc.fn = "split_by_comma" =>
                            sc'.out = Append(sc.out, sc.current)
                      /\ sc.fn = "split_statements" =>
                            sc'.out = IF Trim(sc.current) # <<>>
                                      THEN Append(sc.out, Trim(sc.current))
                                      ELSE sc.out
            kept == sc'.current = Append(sc.current, ch) /\ sc'.out = sc.out
        IN  IF ch = Separator(sc.fn) /\ TopLevelAt(sc.text, sc.i)
            THEN splits
            ELSE kept

C8_SeparatorOnlyAtTopLevel == [][C8_SeparatorStep]_vars

C8_Witness ==
    /\ sc.fn = "split_by_comma" /\ sc.done
    /\ sc.text = <<"'", "\"", ",", "'">>
    /\ sc.out = <<sc.text>>

(***************************************************************************)
(* SQL provider: nullability of the generated record fields.               *)
(***************************************************************************)
SqlDone == sq.phase = "done"

\* The record generated for the one table of the script.
SqlRecord == sq.generated.modules[1].types[1]

\* The column definition carries the constraint PRIMARY KEY or NOT NULL: one
\* of its clauses, which follow the type, is that constraint.
CarriesKeyOrNotNull(column) ==
    \E k \in 1..Len(column.clauses) :
        column.clauses[k] \in {"PRIMARY KEY", "NOT NULL", "not null"}

\* The type a column's type text maps to, before nullability applies.
SqlMapped(type) == sql_type_to_type_expr(SqlTypeFromStr(SqlWord(type)))

\* C9: the record field of a column that carries PRIMARY KEY or NOT NULL has
\* the mapped type T of the column, not wrapped in "option"; the field of
\* every column that carries neither has the type "T option".
C9_OptionUnlessKeyOrNotNull ==
    SqlDone =>
        \A k \in 1..Len(sq.src.columns) :
            SqlRecord.fields[k][2]
                = IF CarriesKeyOrNotNull(sq.src.columns[k])
                  THEN SqlMapped(sq.src.columns[k].type)
                  ELSE SqlMapped(sq.src.columns[k].type) \o " option"

(***************************************************************************)
(* OBI provider: validation fails exactly on a dangling reference.         *)
(***************************************************************************)
\* The type inside any depth of array / list / option.
RECURSIVE Unwrapped(_)
Unwrapped(obi_type) ==
    IF obi_type.kind \in {"array", "list", "option"}
    THEN Unwrapped(obi_type.type)
    ELSE obi_type

\* The type refers to a struct or an enum that the schema does not define.
IsDangling(obi_type, schema) ==
    \/ obi_type.kind = "struct" /\ obi_type.name \notin DOMAIN schema.structs
    \/ obi_type.kind = "enum" /\ obi_type.name \notin DOMAIN schema.enums

HasDanglingReference(schema) ==
    \E name \in DOMAIN schema.structs :
        \E k \in 1..Len(schema.structs[name].fields) :
            IsDangling(Unwrapped(schema.structs[name].fields[k].field_type),
                       schema)

\* C10: validate_schema returns an error only for a schema in which some
\* struct field's type, unwrapped from its arrays, lists and options, is a
\* struct reference that is no key of structs or an enum reference that is
\* no key of enums, and returns Ok only for a schema without such a field.
C10_FailsIffDanglingReference ==
    /\ ob.phase = "failed" =>
            ~ob.result.ok /\ HasDanglingReference(ob.schema)
    /\ ob.phase = "ok" => ob.result.ok /\ ~HasDanglingReference(ob.schema)

\* A schema is rejected for an enum reference, two wrappers deep, to a name
\* that is a struct of the schema but not an enum.
C10_Witness ==
    /\ ob.phase = "failed"
    /\ "Data" \in DOMAIN ob.schema.structs
    /\ ob.schema.structs["Event"].fields[1].field_type
        = [kind |-> "list",
           type |-> [kind |-> "option",
                     type |-> [kind |-> "enum", name |-> "Data"]]]
    /\ ob.result.err.what = "Enum"

(***************************************************************************)
(* Field and column order of the generated records.                        *)
(***************************************************************************)
FieldNames(decl) == [k \in 1..Len(decl.fields) |-> decl.fields[k][1]]

\* The names of the fields written in the one message of a "fields" text.
WrittenFieldNames(fields) == [k \in 1..Len(fields) |-> FieldName(k)]

\* The names of the columns written in a CREATE TABLE statement.
WrittenColumnNames(statement) ==
    [k \in 1..Len(statement.columns) |-> statement.columns[k].name]

\* The declarations of the one module generated for a script.
SqlTypes ==
    IF sq.generated.modules = <<>> THEN <<>>
    ELSE sq.generated.modules[1].types

IsCreateTable(statement) == statement.kind = "CREATE TABLE"

\* The record of a protobuf message has the fields of the message, by
\* name, in the order they are written.
C11_ProtoFieldOrder ==
    ProtoDone /\ pb.src.family = "fields" =>
        /\ Len(Types) = 1
        /\ FieldNames(Types[1]) = WrittenFieldNames(pb.src.fields)

\* The record of an SQL table has the columns of the table, by name, in the
\* order they are written.
C11_SqlColumnOrder ==
    SqlDone =>
        \A k \in 1..Len(sq.src.script) :
            IsCreateTable(sq.src.script[k]) =>
                \E d \in 1..Len(SqlTypes) :
                    /\ SqlTypes[d].name = NamingApply(sq.src.script[k].table)
                    /\ FieldNames(SqlTypes[d])
                        = WrittenColumnNames(sq.src.script[k])

\* C11: for every protobuf message and every SQL table the generated
\* record's field list has the same names, in the same order and with the
\* same multiplicity, as the fields or columns written in the source:
\* nothing is reordered or dropped.
C11_DeclarationOrderPreserved == C11_ProtoFieldOrder /\ C11_SqlColumnOrder

(***************************************************************************)
(* Protobuf provider: the names of the declarations of a module.           *)
(***************************************************************************)
\* C12: in the module generate_types returns the declaration names are
\* pairwise distinct, also when two different enclosing messages each
\* declare a nested enum (or message) of the same simple name.
C12_DeclarationNamesDistinct ==
    ProtoDone =>
        \A i, j \in 1..Len(Types) : Types[i].name = Types[j].name => i = j

\* Where the claimed order puts the record of the number-th message.
DeclPosition(number) ==
    CHOOSE i \in 1..Len(DeclOrder(pb.src.forest, 1)) :
        DeclOrder(pb.src.forest, 1)[i] = <<"Record", MsgName(number)>>

\* The name under which the number-th message is emitted.
EmittedName(number) == Types[DeclPosition(number)].name

\* C13: the name under which a nested message is emitted starts with the
\* name under which its enclosing message is emitted.
C13_NestedNamePrefixed ==
    (ProtoDone /\ pb.src.family = "nest") =>
        \A pair \in Enclosures(pb.src.forest, 1) :
            StartsWith(TypeWord(EmittedName(pair[2])),
                       TypeWord(EmittedName(pair[1])))

(***************************************************************************)
(* SQL provider: what another call on the same text can return.            *)
(***************************************************************************)
\* Every result generate_from_schema can return for the parsed schema: one
\* per order in which the loop can visit the tables.
PossibleResults ==
    {generate_from_schema(sq.parsed.val, sq.namespace, order) :
        order \in Orders(DOMAIN sq.parsed.val.tables)}

\* C14: a second call of generate_types on the same text and namespace
\* returns the IR this call returned, the order of the declarations in the
\* module included: the result this call returned is the only one possible.
C14_SameInputSameResult ==
    SqlDone => PossibleResults = {sq.generated}

(***************************************************************************)
(* Both providers: what a call returns when a part of the text fails to    *)
(* parse.                                                                  *)
(***************************************************************************)
\* The result is one error of the parse kind and nothing else: no AST, no
\* schema, and no IR was generated.
IsSingleError(result, generated) ==
    /\ ~result.ok
    /\ result.err.kind = "ParseError"
    /\ "val" \notin DOMAIN result
    /\ generated = <<>>

\* A field of the text is malformed.
HasMalformedField == pb.src.family = "malformed" /\ pb.src.mutation # ""

\* A CREATE TABLE statement of the script is malformed.
HasBrokenStatement ==
    \E k \in 1..Len(sq.src.script) : sq.src.script[k].kind \in BrokenStatements

\* A protobuf text with a malformed field ends in one error, also when an
\* earlier message or field parsed.
C15_ProtoAborts ==
    /\ (HasMalformedField /\ pb.phase \notin {"start", "tokenized"})
            => pb.phase = "failed"
    /\ pb.phase = "failed" => IsSingleError(pb.parsed, pb.generated)

\* An SQL script with a malformed CREATE TABLE ends in one error, also when
\* an earlier statement parsed.
C15_SqlAborts ==
    /\ (HasBrokenStatement /\ sq.phase \notin {"start", "split"})
            => sq.phase = "failed"
    /\ sq.phase = "failed" => IsSingleError(sq.parsed, sq.generated)

\* C15: when a field of a protobuf file or a CREATE TABLE statement of an
\* SQL script fails to parse, the call returns exactly one error and no AST
\* or IR, even when earlier declarations or tables parsed.
C15_AbortsWithOneError == C15_ProtoAborts /\ C15_SqlAborts

(***************************************************************************)
(* Protobuf provider: malformed field productions.                         *)
(***************************************************************************)
\* The token at which the production stops being `type name = number ;`.
\* Without its type the name is read as the type, so `=` is where the name
\* should be.
OffendingToken(mutation) ==
    CASE mutation \in {"type", "name"} -> Tok("Equals")
      [] mutation = "equals" -> TokS("Number", TagWord(mutation))
      [] mutation = "number" -> Tok("Semicolon")
      [] mutation = "semicolon" -> Tok("RightBrace")
      [] OTHER -> TokS("Number", TagWord(mutation))

\* The fields of the message User in the AST.
UserFields ==
    pb.parsed.val.messages[Len(pb.parsed.val.messages)].fields

\* C16: a field production that lacks its type, its name, `=`, the number
\* or `;`, or whose tag is not a non-negative integer (-1, 1.5, 1-2), makes
\* parsing fail with a ParseError that names the offending token, and no
\* field is added: there is no AST.  The production `type name = number ;`
\* itself is accepted and adds its field.
C16_MalformedFieldRejected ==
    (pb.src.family = "malformed" /\ pb.phase \notin {"start", "tokenized"}) =>
        IF pb.src.mutation = ""
        THEN /\ pb.parsed.ok
             /\ UserFields[Len(UserFields)].name = FieldName(2)
        ELSE /\ pb.phase = "failed"
             /\ ~pb.parsed.ok
             /\ pb.parsed.err.kind = "ParseError"
             /\ pb.parsed.err.got = OffendingToken(pb.src.mutation)
             /\ "val" \notin DOMAIN pb.parsed
             /\ pb.generated = <<>>

\* The tag 1-2 of the second field of the second message is rejected.
C16_Witness ==
    /\ pb.phase = "failed"
    /\ pb.src.family = "malformed"
    /\ pb.src.before
    /\ pb.src.lead
    /\ pb.src.mutation = "1-2"
    /\ pb.parsed.err.msg = "Invalid field number"
    /\ pb.parsed.err.got = TokS("Number", <<"1", "-", "2">>)

(***************************************************************************)
(* SQL provider: which statements of a script count.                       *)
(***************************************************************************)
\* The names of the tables the CREATE TABLE statements of the script create.
CreatedTables ==
    {SqlWord(sq.src.script[k].table) :
        k \in {n \in 1..Len(sq.src.script) : IsCreateTable(sq.src.script[n])}}

\* C17: in a script whose CREATE TABLE statements are well formed, the
\* statements that are no CREATE TABLE (CREATE INDEX, CREATE TABLESPACE,
\* ALTER TABLE, INSERT) never cause an error and contribute no table, and
\* every CREATE TABLE statement contributes its table.
C17_OnlyCreateTableRecognized ==
    (~HasBrokenStatement /\ sq.phase \notin {"start", "split", "idle"}) =>
        /\ sq.phase \in {"parsed", "done"}
        /\ sq.parsed.ok
        /\ DOMAIN sq.parsed.val.tables = CreatedTables

(***************************************************************************)
(* SQL provider: array types.                                              *)
(***************************************************************************)
\* The type texts of the model that end in `[]`, and each one's element
\* type text: the text without the trailing `[]`.
ArrayTypeWords == {"TEXT[]", "VARCHAR(255)[]", "INT[][]"}

ElementWord(type) ==
    CASE type = "TEXT[]" -> "TEXT"
      [] type = "VARCHAR(255)[]" -> "VARCHAR(255)"
      [] type = "INT[][]" -> "INT[]"

\* The column a CREATE TABLE statement's k-th column was parsed into.
ParsedColumn(statement, k) ==
    sq.parsed.val.tables[SqlWord(statement.table)].columns[k]

\* C18: a column whose type text ends in `[]` has the mapped type "E list",
\* E being the mapped type of the text without the trailing `[]`, also for
\* an element type with a parameter list (VARCHAR(255)[]) and for a nested
\* array (INT[][]).
C18_ArrayMapsToList ==
    sq.phase \in {"parsed", "done"} =>
        \A s \in 1..Len(sq.src.script) :
            \A k \in 1..Len(sq.src.script[s].columns) :
                sq.src.script[s].columns[k].type \in ArrayTypeWords =>
                    sql_type_to_type_expr(
                        ParsedColumn(sq.src.script[s], k).sql_type)
                    = SqlMapped(ElementWord(sq.src.script[s].columns[k].type))
                        \o " list"

(***************************************************************************)
(* Protobuf provider: the module of a file.                                *)
(***************************************************************************)
\* The module path the file's package statement, or else the namespace of
\* the call, stands for.
ExpectedPath ==
    IF pb.src.family = "package" /\ pb.src.package # <<>>
    THEN pb.src.package
    ELSE IF /\ pb.src.family = "stray"
            /\ \E k \in 1..Len(pb.src.decls) : pb.src.decls[k] = "package"
    THEN <<"example">>
    ELSE <<pb.namespace>>

\* The file declares a message or an enum.
DeclaresTypes ==
    pb.parsed.val.messages # <<>> \/ pb.parsed.val.enums # <<>>

\* C19 as stated: every protobuf input gives exactly one module, whose path
\* is the package split at `.` or else the namespace, and no root types.
C19_ExactlyOneModule ==
    ProtoDone =>
        /\ Len(pb.generated.modules) = 1
        /\ pb.generated.modules[1].path = ExpectedPath
        /\ pb.generated.root_types = <<>>

\* C19, amended: a protobuf input that declares at least one message or
\* enum gives exactly one module, whose path is the package split at `.`
\* or else the namespace; an input that declares none gives no module; and
\* there are no root types in either case.
C19_OneModuleIfDeclarations ==
    ProtoDone =>
        /\ pb.generated.root_types = <<>>
        /\ IF DeclaresTypes
           THEN /\ Len(pb.generated.modules) = 1
                /\ pb.generated.modules[1].path = ExpectedPath
           ELSE pb.generated.modules = <<>>

\* The package example.v1 with one message gives the module [example, v1].
C19_Witness ==
    /\ ProtoDone
    /\ pb.src.family = "package"
    /\ pb.src.package = <<"example", "v1">>
    /\ pb.src.body = "message"
    /\ Len(pb.generated.modules) = 1
    /\ pb.generated.modules[1].path = <<"example", "v1">>

(***************************************************************************)
(* OBI provider: a schema with a dangling reference is rejected whole.     *)
(***************************************************************************)
\* No step of the run changes the schema it was given.
C20_SchemaUnmodified == [][ob'.schema = ob.schema]_vars

\* C20: for a schema with a dangling struct or enum reference the run ends
\* in the validation, before any type is mapped: it returns one error, of
\* the validation kind, and no IR (no module, no root type).
C20_RejectedBeforeMapping ==
    (HasDanglingReference(ob.schema) /\ ob.phase \notin {"idle", "validating"})
        => /\ ob.phase = "failed"
           /\ ~ob.result.ok
           /\ ob.result.err.kind = "ValidationError"
           /\ "val" \notin DOMAIN ob.result
           /\ ob.generated = <<>>

(***************************************************************************)
(* OBI provider: what the missing-definition error says.                   *)
(***************************************************************************)
\* The error names the missing definition, the field whose type refers to
\* it and the struct that declares the field.
ErrorIdentifies(err, schema, struct_name, k) ==
    /\ IsDangling(Unwrapped(schema.structs[struct_name].fields[k].field_type),
                  schema)
    /\ err.name = Unwrapped(schema.structs[struct_name].fields[k].field_type).name
    /\ err.context = struct_name
    /\ "field" \in DOMAIN err
    /\ err.field = schema.structs[struct_name].fields[k].name

\* C21: when validation fails, the error carries the name of the missing
\* struct or enum, the name of the field whose type contains the reference,
\* and the name of the struct that declares that field.
C21_ErrorNamesFieldAndStruct ==
    ob.phase = "failed" =>
        \E struct_name \in DOMAIN ob.schema.structs :
            \E k \in 1..Len(ob.schema.structs[struct_name].fields) :
                ErrorIdentifies(ob.result.err, ob.schema, struct_name, k)

(***************************************************************************)
(* Protobuf provider: stray tokens at the top level.                       *)
(***************************************************************************)
\* The AST of the text written from the same declarations without the
\* stray tokens.
WithoutStray == parse_proto(StrayText(pb.src.decls, 0, <<>>, 1))

\* C22: tokens that start no recognized construct (stray punctuation,
\* numbers, string literals, identifiers other than `syntax`, the keyword
\* rpc), put between top-level declarations, never cause a ParseError, and
\* the AST is the AST of the text without them.
C22_TopLevelSkipsStrayTokens ==
    (pb.src.family = "stray" /\ pb.phase \notin {"start", "tokenized"}) =>
        /\ pb.phase \in {"parsed", "done"}
        /\ pb.parsed.ok
        /\ WithoutStray.ok
        /\ pb.parsed.val = WithoutStray.val

\* Two stray tokens, one of them the keyword rpc, between a package
\* statement and a message: the AST has the package and the message.
C22_Witness ==
    /\ pb.phase = "parsed"
    /\ pb.src.family = "stray"
    /\ pb.src.decls = <<"package", "message">>
    /\ pb.src.at = 1
    /\ pb.src.stray = <<"rpc", "}">>
    /\ pb.parsed.val.package # <<>>
    /\ Len(pb.parsed.val.messages) = 1

(***************************************************************************)
(* Protobuf provider: the body of an rpc method.                           *)
(***************************************************************************)
\* The AST of the same service with `;` after every method.
WithoutBodies ==
    parse_proto(ServiceText([k \in 1..Len(pb.src.ends) |-> ";"], pb.src.tail))

HasUnclosedBody ==
    \E k \in 1..Len(pb.src.ends) : pb.src.ends[k] = UnclosedBody

\* C23: a method followed by a brace-delimited body is parsed as if it were
\* followed by `;`, whatever braces, keywords or tokens the body holds: the
\* methods of the service and the declarations after it are the same; a
\* body still open at the end of the input gives a ParseError.
C23_MethodBodySkipped ==
    (pb.src.family = "service" /\ pb.phase \notin {"start", "tokenized"}) =>
        IF HasUnclosedBody
        THEN /\ pb.phase = "failed"
             /\ ~pb.parsed.ok
             /\ pb.parsed.err.kind = "ParseError"
        ELSE /\ pb.parsed.ok
             /\ WithoutBodies.ok
             /\ pb.parsed.val = WithoutBodies.val
             /\ Len(pb.parsed.val.services[1].methods) = Len(pb.src.ends)
             /\ Len(pb.parsed.val.messages) = IF pb.src.tail THEN 1 ELSE 0

\* A method with nested braces in its body, a second method and a message
\* after the service: both methods and the message are in the AST.
C23_Witness ==
    /\ pb.phase = "parsed"
    /\ pb.src.family = "service"
    /\ pb.src.ends = <<"{ { } }", "{ rpc ; message }">>
    /\ pb.src.tail
    /\ Len(pb.parsed.val.services[1].methods) = 2
    /\ Len(pb.parsed.val.messages) = 1

(***************************************************************************)
(* Protobuf provider: what tokenize returns.                               *)
(***************************************************************************)
\* The tokens a piece stands for: none for whitespace and comments.
PieceTokens(piece) ==
    CASE piece = ";" -> <<Tok("Semicolon")>>
      [] piece = "\"/*\"" -> <<TokS("StringLiteral", "/*")>>
      [] piece = "\"; //" -> <<TokS("StringLiteral", "; //")>>
      [] OTHER -> <<>>

RECURSIVE PiecesTokens(_)
PiecesTokens(pieces) ==
    IF pieces = <<>> THEN <<>>
    ELSE PieceTokens(Head(pieces)) \o PiecesTokens(Tail(pieces))

\* C24: tokenize ends on every text, within one iteration per character and
\* the final push; the tokens end with the end-marker, which occurs nowhere
\* else; whitespace and complete comments give no token; an unterminated
\* string gives one string-literal token holding the rest of the text, an
\* unterminated block comment gives none.
C24_TokenizeTotal ==
    (pb.phase \notin {"idle", "start"}) =>
        /\ TokenizeRun(TokenizeStart(pb.content), Len(pb.content) + 1).done
        /\ pb.tokens # <<>>
        /\ pb.tokens[Len(pb.tokens)] = Eof
        /\ \A k \in 1..(Len(pb.tokens) - 1) : pb.tokens[k].k # "Eof"
        /\ pb.src.family = "lexical" =>
              pb.tokens = PiecesTokens(pb.src.pieces)
                          \o PieceTokens(pb.src.open) \o <<Eof>>

\* A block comment, a `;` and an unterminated string: two tokens and Eof.
C24_Witness ==
    /\ pb.phase = "tokenized"
    /\ pb.src.family = "lexical"
    /\ pb.src.pieces = <<"/* ; */", ";">>
    /\ pb.src.open = "\"; //"
    /\ pb.tokens = <<Tok("Semicolon"), TokS("StringLiteral", "; //"), Eof>>

(***************************************************************************)
(* Protobuf provider: the label of a map field.                            *)
(***************************************************************************)
\* The fields of a message and of the messages nested in it.
RECURSIVE FieldsIn(_)
FieldsIn(message) ==
    {message.fields[k] : k \in 1..Len(message.fields)}
    \cup UNION {FieldsIn(message.nested_messages[k]) :
                    k \in 1..Len(message.nested_messages)}

\* The fields of the AST parse_proto returned.
ParsedFields ==
    UNION {FieldsIn(pb.parsed.val.messages[k]) :
               k \in 1..Len(pb.parsed.val.messages)}

\* C25: in every AST parse_proto returns, a field has one of the three
\* labels and a field of map type has the label repeated; a map field
\* written after a label keyword (optional, repeated, required) is rejected
\* with a ParseError.
C25_MapFieldsRepeated ==
    /\ pb.phase \in {"parsed", "done"} =>
          \A f \in ParsedFields :
              /\ f.label \in {"Optional", "Required", "Repeated"}
              /\ f.field_type.t = "Map" => f.label = "Repeated"
    /\ (/\ pb.src.family = "labelled"
        /\ pb.src.head = "map"
        /\ pb.src.label # ""
        /\ pb.phase \notin {"start", "tokenized"}) =>
          /\ pb.phase = "failed"
          /\ ~pb.parsed.ok
          /\ pb.parsed.err.kind = "ParseError"

\* `map < string , int32 > f2 = 2 ;` after the field f1: the second field of
\* the AST is a map and repeated.
C25_Witness ==
    /\ pb.phase = "parsed"
    /\ pb.src.family = "labelled"
    /\ pb.src.head = "map"
    /\ pb.src.label = ""
    /\ pb.src.lead
    /\ Len(UserFields) = 2
    /\ UserFields[2].field_type.t = "Map"
    /\ UserFields[2].label = "Repeated"

(***************************************************************************)
(* Protobuf provider: reserved words as field names.                       *)
(***************************************************************************)
\* C29: a field whose name is one of the 12 reserved words is never
\* accepted, in the plain and in the map production: parse_proto returns a
\* ParseError, and no AST holds a field with such a name.
C29_ReservedNameRejected ==
    /\ pb.phase \in {"parsed", "done"} =>
          \A f \in ParsedFields : f.name \notin ReservedWords
    /\ (/\ pb.src.family = "labelled"
        /\ pb.src.name \in ReservedWords
        /\ pb.phase \notin {"start", "tokenized"}) =>
          /\ pb.phase = "failed"
          /\ ~pb.parsed.ok
          /\ pb.parsed.err.kind = "ParseError"

\* `map < string , int32 > stream = 2 ;`: rejected at the token of the name.
C29_Witness ==
    /\ pb.phase = "failed"
    /\ pb.src.family = "labelled"
    /\ pb.src.head = "map"
    /\ pb.src.label = ""
    /\ pb.src.name = "stream"
    /\ pb.parsed.err.msg = "Expected identifier"
    /\ pb.parsed.err.got = Tok("Stream")

(***************************************************************************)
(* SQL provider: the text scanned for column constraints.                  *)
(***************************************************************************)
\* The column parsed from the definition that has a type without parameter
\* list and the same clauses.
SameClausesColumn ==
    parse_column_definition(
        ColumnText(ColumnName(TRUE, 1),
                   ColumnShape("INT", sq.src.columns[1].clauses))).val

\* C26: only the text after the complete type text is scanned for constraint
\* keywords: a column has the constraints and the nullability its clauses
\* give, whatever its type's parameter list holds (an ENUM value list with
\* 'NOT NULL' adds no constraint).
C26_TypeTextNotScanned ==
    (sq.src.single /\ sq.phase \in {"parsed", "done"}) =>
        LET column == sq.parsed.val.tables[SqlWord(sq.src.table)].columns[1]
        IN  /\ column.constraints = SameClausesColumn.constraints
            /\ is_nullable(column) = is_nullable(SameClausesColumn)

(***************************************************************************)
(* Protobuf provider: the cursor of the parser.                            *)
(***************************************************************************)
\* C27: every iteration of a loop of the parser moves the cursor forward by
\* at least one token unless it ends the parse; the cursor never passes the
\* end of the tokens, where reading yields the end-marker; and advance, on
\* which the loops that skip a method body and read a qualified name rely,
\* moves the cursor at every token that is not the end-marker.
C27_ParserAdvances ==
    [][pb.phase = "parsing" =>
        /\ pb.parser.pos <= Len(pb.tokens) + 1
        /\ pb'.parser.pos <= Len(pb.tokens) + 1
        /\ pb'.phase = "parsing" => pb'.parser.pos > pb.parser.pos
        /\ pb'.phase # "parsing" => pb'.parser.done
        /\ Current(pb.tokens, Len(pb.tokens) + 1) = Eof
        /\ Current(pb.tokens, Len(pb.tokens) + 2) = Eof
        /\ Advance(pb.tokens, Len(pb.tokens) + 1) = Len(pb.tokens) + 1
        /\ \A j \in 1..Len(pb.tokens) :
              pb.tokens[j] # Eof => Advance(pb.tokens, j) = j + 1]_vars

\* A service whose method body is never closed: the skip has stopped at the
\* end-marker, the last token, and parse_service is still running.
C27_Witness ==
    /\ pb.phase = "parsing"
    /\ pb.src.family = "service"
    /\ pb.src.ends = <<UnclosedBody>>
    /\ pb.parser.pos = Len(pb.tokens)
    /\ Current(pb.tokens, pb.parser.pos) = Eof
    /\ Top(pb.parser).fn = "parse_service"
    /\ Len(Top(pb.parser).val.methods) = 1

(***************************************************************************)
(* SQL provider: column names that begin with a constraint keyword.        *)
(***************************************************************************)
\* The names of the columns of the table parsed from a statement.
ParsedColumnNames(statement) ==
    [k \in 1..Len(sq.parsed.val.tables[SqlWord(statement.table)].columns) |->
        Str(sq.parsed.val.tables[SqlWord(statement.table)].columns[k].name)]

\* C28: an item of a table body is a table constraint only when its first
\* word is a constraint keyword: in a script of CREATE TABLE statements
\* whose items are all `name type ...` columns, every item is parsed as a
\* column, also one named check_in, constraint_type or unique_id; there is
\* no error, no column is dropped and no table constraint is recorded.
C28_KeywordPrefixedColumnKept ==
    (/\ sq.src.script # <<>>
     /\ \A k \in 1..Len(sq.src.script) :
            /\ IsCreateTable(sq.src.script[k])
            /\ \A j \in 1..Len(sq.src.script[k].columns) :
                    sq.src.script[k].columns[j].clauses = <<>>
     /\ sq.phase \notin {"idle", "start", "split"}) =>
        /\ sq.phase \in {"parsed", "done"}
        /\ sq.parsed.ok
        /\ \A k \in 1..Len(sq.src.script) :
              /\ ParsedColumnNames(sq.src.script[k])
                    = [j \in 1..Len(sq.src.script[k].columns) |->
                          sq.src.script[k].columns[j].name]
              /\ sq.parsed.val.tables[SqlWord(sq.src.script[k].table)]
                    .table_constraints = <<>>

(***************************************************************************)
(* SQL provider: parentheses inside a quoted default value.                *)
(***************************************************************************)
HasQuotedDefault ==
    /\ Len(sq.src.script) = 1
    /\ \E j \in 1..Len(sq.src.script[1].columns) :
          /\ sq.src.script[1].columns[j].clauses # <<>>
          /\ sq.src.script[1].columns[j].clauses[1] \in QuotedDefaults

\* C30: the body of a CREATE TABLE statement runs from the first `(` after
\* the table name to its matching `)`, parentheses inside quoted literals
\* not counting: a table with a column whose default value is ')', '(' or
\* '()' is parsed without error and has all the columns written, in order.
C30_QuotedParenthesesNotCounted ==
    (HasQuotedDefault /\ sq.phase \notin {"idle", "start", "split"}) =>
        /\ sq.phase \in {"parsed", "done"}
        /\ sq.parsed.ok
        /\ ParsedColumnNames(sq.src.script[1])
              = [j \in 1..Len(sq.src.script[1].columns) |->
                    sq.src.script[1].columns[j].name]

=============================================================================
